---- MODULE Spec2Model ----
(***************************************************************************)
(* Model of the rebalancing decision engine of rebalance-bot.js            *)
(* (RebalanceBot.calculateWeights, RebalanceBot.rebalance and the outcome  *)
(* of RebalanceBot.swap as seen by the pass), of the installation of the   *)
(* target weights (RebalanceBot.constructor, POST /api/config of           *)
(* web-server.js), of the price cache (RebalanceBot.getPrices), of the     *)
(* polling loop (RebalanceBot.start, stop, POST /api/rebalance), of the   *)
(* HODL baseline (RebalanceBot.calculateHodlComparison, saveData), of the  *)
(* Telegram commands and of one call of RebalanceBot.swap with getQuote.   *)
(*                                                                         *)
(* The specifications share the variables:                                 *)
(*   Spec          one rebalancing pass of a polling cycle;                *)
(*   SpecConfig    the web server starting, configuring and stopping a     *)
(*                 bot;                                                    *)
(*   SpecPrices    calls of getPrices as time passes and the process       *)
(*                 restarts;                                               *)
(*   SpecLoop      the polling loop of one bot, cycle after cycle, with    *)
(*                 stop() and manual rebalance requests;                   *)
(*   SpecLoopFair  SpecLoop with weak fairness of the loop's steps;        *)
(*   SpecHodl      status reports and resets of the HODL baseline;         *)
(*   SpecBaseline  the polling loop with stop(), status commands and       *)
(*                 resets of the baseline;                                 *)
(*   SpecTelegram  Telegram commands of listed and unlisted chats;         *)
(*   SpecSwap      calls of swap: allowance, quote, order;                 *)
(*   SpecPassConfig  one cycle of the loop with requests to                *)
(*                 POST /api/config.                                       *)
(*                                                                         *)
(* Number representation.  The program computes with JavaScript numbers;   *)
(* the model computes with exact rationals held as scaled integers:        *)
(*   - the price of token t is held as a whole number of price units,      *)
(*     priceUnit[t] dollars each (a token trading near $100,000 has the    *)
(*     unit 100000, a token trading near $1 the unit 1);                   *)
(*   - a quantity q of token t is held as the integer                      *)
(*     q * QtyScale * priceUnit[t];                                        *)
(*   - a dollar value v is held as the integer v * QtyScale, so that       *)
(*     a value is balance * price as in the program;                       *)
(*   - a target weight w is held as the integer w * WeightScale;           *)
(*   - a current weight is the fraction num[t] / den of a record           *)
(*     [num, den]; a deviation (diff) is held as the numerator of the      *)
(*     fraction diff = DiffNum / (den * WeightScale).                      *)
(* QtyScale is chosen so that every division the pass performs on the      *)
(* inputs drawn by Init is exact.  Floating-point rounding is not          *)
(* modelled.                                                               *)
(*                                                                         *)
(* Values that are not numbers.  A token without an entry in the price map *)
(* (prices[token] undefined, or parsed to NaN) is a token outside the      *)
(* domain of the function prices, and its balance * price is NaN; the same *)
(* holds for a token without a target weight.  The one variable that can   *)
(* hold NaN, totalValue, holds it as the value NaN below; a comparison     *)
(* with NaN is false, as in the program.  The maps of the price cache      *)
(* (what the price source answers, this.priceCache, this.lastKnownPrices,  *)
(* what getPrices returns) keep the keys of the program's objects: there a *)
(* price that parseFloat turned into NaN is an entry with the value NaN.   *)
(***************************************************************************)
EXTENDS Integers, Sequences, FiniteSets, TLC

\* ---------------------------------------------------------------- bounds
MaxBalance == 3

\* the clock runs from minute 1 to minute MaxTime
MaxTime == 7

\* the exchange quotes buy amounts of 0 to MaxQuote atoms
MaxQuote == 64

\* ------------------------------------------------------------- constants
\* target weights and the deviation threshold are held in twentieths
WeightScale == 20

\* excessValue / prices[this.baseToken] * 0.98
SlippageNum == 98
SlippageDen == 100

\* quantities and dollar values are held in units of 1 / QtyScale
QtyScale == WeightScale * SlippageDen * SlippageDen

\* if (remainingNeeded <= 1) break
DeficitStopUSD == 1

\* sellAmount >= 0.00001 and wethAmount >= 0.0001, in units of 1 / QtyScale
\* of a token (times the token's price unit in the token's own units)
SellDustFloor == QtyScale \div 100000
BuyDustFloor == QtyScale \div 10000

\* totalValue when a balance * price of the sum is not a number, and the
\* price parseFloat returns for a text that is not a number (every number
\* these can hold is >= 0)
NaN == -1

baseToken == "WETH"

\* Object.keys(this.tokens), in insertion order (a subset of the six tokens)
TokenOrder == <<"cbBTC", "WETH", "cbXRP", "cbADA">>

tokens == {TokenOrder[i] : i \in 1..Len(TokenOrder)}

\* ------------------------------------------------------------ input sets
BalanceChoices == {QtyScale * k : k \in 0..MaxBalance}

PriceChoices ==
    { [t \in tokens |-> 1],
      [t \in tokens |-> IF t = "WETH" THEN 2 ELSE 1],
      [t \in tokens |-> IF t = "cbBTC" THEN 2 ELSE 1],
      [t \in tokens |-> IF t \in {"cbBTC", "WETH"} THEN 2 ELSE 1] }

\* price maps that lack the price of one token
PartialPriceChoices ==
    { [t \in tokens \ {"cbADA"} |-> 1],
      [t \in tokens \ {"cbBTC"} |-> IF t = "WETH" THEN 2 ELSE 1] }

\* an answer of the price source with a ticker for every token, one of
\* them with a price text that parseFloat turns into NaN
NaNPriceChoices == { [t \in tokens |-> IF t = "cbADA" THEN NaN ELSE 1] }

\* the price units of the tokens: cbBTC is priced in units of $100,000,
\* WETH in units of $10,000, cbXRP and cbADA in dollars
PriceUnits ==
    [t \in tokens |-> IF t = "cbBTC" THEN 100000
                      ELSE IF t = "WETH" THEN 10000 ELSE 1]

WeightChoices ==
    { [t \in tokens |-> 5],
      [t \in tokens |-> IF t = "cbBTC" THEN 10 ELSE IF t = "cbADA" THEN 0 ELSE 5],
      [t \in tokens |-> IF t = "WETH" THEN 10 ELSE IF t = "cbADA" THEN 4 ELSE 3] }

\* deviationThreshold, in units of 1 / WeightScale (0.05 and 0.10)
ThresholdChoices == {1, 2}

\* minTradeUSD in dollars
MinTradeChoices == {1, 2}

SwapOutcomes == {"no_order", "rejected", "accepted"}

\* --------------------------------------------------------------- helpers
Abs(x) == IF x < 0 THEN -x ELSE x

Min(a, b) == IF a <= b THEN a ELSE b

RECURSIVE SumOver(_, _)
SumOver(f, S) ==
    IF S = {} THEN 0
    ELSE LET t == CHOOSE x \in S : TRUE
         IN f[t] + SumOver(f, S \ {t})

\* a * b / c for the exact rational product of the pass (b = c or b = 0)
MulDiv(a, b, c) == IF b = c THEN a ELSE (a * b) \div c

\* Array.prototype.sort with comparator (a, b) => key(b) - key(a): stable,
\* descending in the key.  keys[i] is the key of s[i].
StableSortDesc(s, keys) ==
    LET n == Len(s)
        rank(i) == 1 + Cardinality({j \in 1..n :
                         keys[j] > keys[i] \/ (keys[j] = keys[i] /\ j < i)})
    IN [p \in 1..n |-> s[CHOOSE i \in 1..n : rank(i) = p]]

\* the tokens of keep, in the order of TokenOrder
RECURSIVE SelectTokens(_, _)
SelectTokens(i, keep) ==
    IF i > Len(TokenOrder) THEN <<>>
    ELSE (IF TokenOrder[i] \in keep THEN <<TokenOrder[i]>> ELSE <<>>)
         \o SelectTokens(i + 1, keep)

\* ------------------------------------------------------------- variables
VARIABLES
    balances,            \* in-memory balance map of the cycle
    prices,              \* price map of the cycle
    priceUnit,           \* dollars per price unit of each token
    weights,             \* this.weights (target weights)
    deviationThreshold,  \* this.deviationThreshold
    minTradeUSD,         \* this.minTradeUSD
    currentWeights,      \* result of calculateWeights
    totalValue,          \* rebalance: totalValue
    trades,              \* rebalance: trades
    sellTrades,          \* rebalance: sellTrades
    buyTrades,           \* rebalance: buyTrades
    neededWethValue,     \* rebalance: neededWethValue
    remainingNeeded,     \* rebalance: remainingNeeded
    overweightTokens,    \* rebalance: overweightTokens
    idx,                 \* position of the running for-loop
    pc,                  \* position of the cycle
    swapLog,             \* calls made to this.swap, in order
    pauseLog,            \* the pauses between trades that have elapsed
    report,              \* the closing log line of rebalance
    customWeightsSetting,  \* process.env.CUSTOM_WEIGHTS
    botExists,           \* web-server.js: bot is not null
    botRunning,          \* web-server.js: botRunning
    priceCache,          \* this.priceCache
    lastKnownPrices,     \* this.lastKnownPrices
    dataFile,            \* lastKnownPrices as saved in rebalance-data.json
    now,                 \* Date.now(), in minutes
    lastGet,             \* what the last call of getPrices did
    loop,                \* RebalanceBot.start: the position of the loop
    isRunning,           \* this.isRunning
    wallet,              \* the balances of the wallet on the chain
    manual,              \* the request of POST /api/rebalance in progress
    initialBalances,     \* this.initialBalances (the HODL baseline)
    startDate,           \* this.startDate
    savedBaseline,       \* the baseline as saved in rebalance-data.json
    comparison,          \* what calculateHodlComparison returned
    posted,              \* swap: the order posted to the exchange
    swapCall,            \* swap: the call in progress and what it returned
    telegram             \* what the handler of a Telegram command did

\* the locals of a pass
passVars == <<balances, prices, priceUnit, currentWeights, totalValue, trades,
              sellTrades, buyTrades, neededWethValue, remainingNeeded,
              overweightTokens, idx, pc, swapLog, pauseLog, report>>

\* the environment and the web server's view of the bot
serverVars == <<customWeightsSetting, botExists, botRunning>>

\* the price cache, the fallback prices and the clock
priceVars == <<priceCache, lastKnownPrices, dataFile, now, lastGet>>

\* the polling loop, the manual request and the wallet
cycleVars == <<loop, isRunning, wallet, manual>>

\* the HODL baseline in memory and in the data file
baselineVars == <<initialBalances, startDate, savedBaseline, comparison>>

\* what a call of swap and a Telegram command sent to the outside
ioVars == <<posted, swapCall, telegram>>

vars == <<balances, prices, priceUnit, weights, deviationThreshold,
          minTradeUSD, currentWeights, totalValue, trades, sellTrades,
          buyTrades, neededWethValue, remainingNeeded, overweightTokens, idx,
          pc, swapLog, pauseLog, report, serverVars, priceVars, cycleVars,
          baselineVars, ioVars>>

\* ------------------------------------------------------ pure functions
\* balances[token] * prices[token] is a number
HasValue(p, t) == t \in DOMAIN p /\ p[t] # NaN

\* isNaN(value) ? 0 : value
ValueOrZero(b, p, t) == IF HasValue(p, t) THEN b[t] * p[t] ELSE 0

\* every weight 1 / n when the total value is 0
calculateWeightsEqualAtZero(b, p) ==
    LET total == SumOver([t \in tokens |-> ValueOrZero(b, p, t)], tokens)
    IN IF total = 0
       THEN [num |-> [t \in tokens |-> 1], den |-> Cardinality(tokens)]
       ELSE [num |-> [t \in tokens |-> ValueOrZero(b, p, t)], den |-> total]

\* RebalanceBot.calculateWeights: a value that is not a number adds 0 to
\* the total, and its weight (NaN / totalValue) || 0 is 0
calculateWeights(b, p) ==
    LET total == SumOver([t \in tokens |-> ValueOrZero(b, p, t)], tokens)
    IN IF total = 0
       THEN [num |-> [t \in tokens |-> 0], den |-> 1]
       ELSE [num |-> [t \in tokens |-> ValueOrZero(b, p, t)], den |-> total]

\* rebalance: totalValue, the sum of balances[t] * prices[t] without a
\* test for NaN
TotalValueOf(b, p) ==
    IF \A t \in tokens : HasValue(p, t)
    THEN SumOver([t \in tokens |-> b[t] * p[t]], tokens)
    ELSE NaN

\* this.weights[token] is a number
HasTarget(w, t) == t \in DOMAIN w

\* rebalance: diff = currentWeights[token] - this.weights[token],
\* as the numerator over cw.den * WeightScale
DiffNum(cw, w, t) == cw.num[t] * WeightScale - w[t] * cw.den

\* the threshold test with >= in place of >
ExceedsThresholdInclusive(cw, w, thr, t) ==
    /\ HasTarget(w, t)
    /\ Abs(cw.num[t] * WeightScale - w[t] * cw.den) >= thr * cw.den

\* rebalance: Math.abs(diff) > this.deviationThreshold
ExceedsThreshold(cw, w, thr, t) ==
    /\ HasTarget(w, t)
    /\ Abs(DiffNum(cw, w, t)) > thr * cw.den

\* rebalance: valueDiff = diff * totalValue, times WeightScale
ValueDiffNum(cw, w, total, t) == MulDiv(DiffNum(cw, w, t), total, cw.den)

\* rebalance: Math.abs(valueDiff) > this.minTradeUSD
ExceedsMinTrade(cw, w, total, minUSD, t) ==
    /\ HasTarget(w, t)
    /\ total # NaN
    /\ Abs(ValueDiffNum(cw, w, total, t)) > minUSD * QtyScale * WeightScale

\* rebalance: the detection loop, trades in iteration order of currentWeights
Flagged(cw, w, thr, total, minUSD) ==
    {t \in tokens : /\ ExceedsThreshold(cw, w, thr, t)
                    /\ ExceedsMinTrade(cw, w, total, minUSD, t)}

DetectTrades(cw, w, thr, total, minUSD) ==
    LET order == SelectTokens(1, Flagged(cw, w, thr, total, minUSD))
    IN [i \in 1..Len(order) |->
          [token |-> order[i], diff |-> DiffNum(cw, w, order[i])]]

IsSell(tr) == tr.diff > 0

IsBuy(tr) == tr.diff < 0

\* the sell list left in detection order
SortSellsUnsorted(trs) == SelectSeq(trs, IsSell)

\* trades.filter(t => t.diff > 0).sort((a, b) => b.diff - a.diff)
SortSells(trs) ==
    LET s == SelectSeq(trs, IsSell)
    IN StableSortDesc(s, [i \in 1..Len(s) |-> s[i].diff])

\* trades.filter(t => t.diff < 0).sort((a, b) => a.diff - b.diff)
SortBuys(trs) ==
    LET s == SelectSeq(trs, IsBuy)
    IN StableSortDesc(s, [i \in 1..Len(s) |-> -(s[i].diff)])

\* the trading block entered whatever the detection found
NeedsRebalanceAlways(trs) == TRUE

\* if (trades.length > 0)
NeedsRebalance(trs) == Len(trs) > 0

\* a target of nothing: the whole holding counts as excess
TargetValueZero(total, w, t) == 0

\* totalValue * this.weights[token]
TargetValue(total, w, t) == (total * w[t]) \div WeightScale

\* swap without the test for a same-token pair
swapAnyPair(fromToken, toToken, outcome) ==
    [success |-> outcome = "accepted", submitted |-> outcome # "no_order"]

\* RebalanceBot.swap, as seen by the pass: outcome is what the allowance
\* step, the quote and the order submission did
swap(fromToken, toToken, outcome) ==
    IF fromToken = toToken
    THEN [success |-> FALSE, submitted |-> FALSE]
    ELSE [success |-> outcome = "accepted", submitted |-> outcome # "no_order"]

\* the pause between trades: setTimeout(resolve, 2000), in seconds
PauseSeconds == 2

\* no pause is taken
PauseSkipped(log, calls) == log

\* await new Promise(resolve => setTimeout(resolve, 2000)): the pause is
\* recorded with the number of swap calls made before it
Pause(log, calls) == Append(log, [after |-> calls, seconds |-> PauseSeconds])

SwapCall(phase, fromToken, toToken, amount, res) ==
    [phase |-> phase, from |-> fromToken, to |-> toToken, amount |-> amount,
     success |-> res.success, submitted |-> res.submitted]

\* the buy loop placed before the sell loop
AfterBuyFirst(position) ==
    CASE position = "rebalance" -> "buy"
      [] position = "buy" -> "sell"
      [] position = "sell" -> "deficit_start"
      [] position = "deficit" -> "done"

\* rebalance: the order of the loops of a pass -- the sell loop, the
\* base-deficit block, the buy loop, "Rebalanced portfolio"
After(position) ==
    CASE position = "rebalance" -> "sell"
      [] position = "sell" -> "deficit_start"
      [] position = "deficit" -> "buy"
      [] position = "buy" -> "done"

\* a failed trade ends the pass
PositionAfterTradeAbort(position, swapSuccess) ==
    IF swapSuccess THEN position ELSE "done"

\* rebalance: what follows the trade of one iteration -- the else branches
\* only log and the loop goes on with the next trade
PositionAfterTrade(position, swapSuccess) == position

\* every computed amount traded
AboveSellDustAlways(token, sellAmount) == TRUE

\* sellAmount >= 0.00001
AboveSellDust(token, sellAmount) ==
    sellAmount >= SellDustFloor * priceUnit[token]

\* the buy floor taken as exclusive
AboveBuyDustStrict(wethAmount) == wethAmount > BuyDustFloor * priceUnit[baseToken]

\* wethAmount >= 0.0001
AboveBuyDust(wethAmount) == wethAmount >= BuyDustFloor * priceUnit[baseToken]

\* the buy issued without looking at the base-token balance
SufficientWethUnchecked(b, wethAmount) == TRUE

\* balances[this.baseToken] >= wethAmount
SufficientWeth(b, wethAmount) == b[baseToken] >= wethAmount

\* excessValue / prices[this.baseToken] * 0.98
WethReceived(value, p) ==
    ((value \div p[baseToken]) * SlippageNum) \div SlippageDen

\* the balances updated whether or not the swap succeeded
BalancesAfterSellAlways(b, token, sellAmount, wethReceived, swapSuccess) ==
    LET debited == [b EXCEPT ![token] = @ - sellAmount]
    IN [debited EXCEPT ![baseToken] = @ + wethReceived]

\* if (swapSuccess) { balances[token] -= sellAmount;
\*                    balances[this.baseToken] += wethReceived }
BalancesAfterSell(b, token, sellAmount, wethReceived, swapSuccess) ==
    IF swapSuccess
    THEN LET debited == [b EXCEPT ![token] = @ - sellAmount]
         IN [debited EXCEPT ![baseToken] = @ + wethReceived]
    ELSE b

\* the base-token balance left as it was after a buy
BalancesAfterBuyNoDebit(b, wethAmount, swapSuccess) == b

\* if (swapSuccess) { balances[this.baseToken] -= wethAmount }
BalancesAfterBuy(b, wethAmount, swapSuccess) ==
    IF swapSuccess THEN [b EXCEPT ![baseToken] = @ - wethAmount] ELSE b

\* if (swapSuccess) { remainingNeeded -= sellValue }
RemainingAfterSell(remaining, sellValue, swapSuccess) ==
    IF swapSuccess THEN remaining - sellValue ELSE remaining

\* if (remainingNeeded <= 1) break
DeficitCovered(remaining) == remaining <= DeficitStopUSD * QtyScale

\* the whole excess sold, whatever is still needed
SellValueFullExcess(excessValue, remaining) == excessValue

\* Math.min(overweight.excessValue, remainingNeeded)
SellValueOf(excessValue, remaining) == Min(excessValue, remaining)

\* the buy loop without the skip of the base token
IsBaseTradeNever(trade) == FALSE

\* if (trade.token === this.baseToken) { ...; continue }
IsBaseTrade(trade) == trade.token = baseToken

\* buyTrades.find(t => t.token === this.baseToken)
HasWethTrade(buys) == \E i \in 1..Len(buys) : buys[i].token = baseToken

\* rebalance, base-deficit phase: the key overweightTokens is sorted by
OverweightKey(overweight) == overweight.excessValue

\* only the tokens flagged for selling are scanned
OverweightCandidatesFlagged(cw, w) ==
    {t \in tokens : /\ t # baseToken
                    /\ \E i \in 1..Len(sellTrades) : sellTrades[i].token = t}

\* rebalance, base-deficit phase: the tokens scanned for the list
OverweightCandidates(cw, w) ==
    {t \in tokens : t # baseToken /\ HasTarget(w, t) /\ DiffNum(cw, w, t) > 0}

\* rebalance, base-deficit phase: the overweightTokens list
\* (every non-base token with diff > 0, sorted by excess value, largest first)
OverweightTokens(cw, w, b, p, total) ==
    LET order == SelectTokens(1, OverweightCandidates(cw, w))
        list == [i \in 1..Len(order) |->
                   [token |-> order[i],
                    diff |-> DiffNum(cw, w, order[i]),
                    excessValue |-> b[order[i]] * p[order[i]]
                                    - TargetValue(total, w, order[i])]]
    IN StableSortDesc(list, [i \in 1..Len(list) |-> OverweightKey(list[i])])

\* ------------------------------- construction, configuration, prices
\* a map without entries ({} in the program)
NoMap == [t \in {} |-> 0]

\* { ...a, ...b }
Merge(a, b) ==
    [t \in (DOMAIN a) \cup (DOMAIN b) |-> IF t \in DOMAIN b THEN b[t] ELSE a[t]]

\* the sum of the entries of a weight map
WeightSum(w) == SumOver(w, DOMAIN w)

\* process.env.CUSTOM_WEIGHTS: not set, a text that JSON.parse rejects, or
\* a text that JSON.parse turns into the map (weights in twentieths):
\* 0.5/0.25/0.25/0, 0.7/0.7/0/0 (sum 1.4), and 0.5 for cbBTC alone (sum 0.5)
CustomWeightsChoices ==
    { [set |-> FALSE, parses |-> FALSE, map |-> NoMap],
      [set |-> TRUE, parses |-> FALSE, map |-> NoMap],
      [set |-> TRUE, parses |-> TRUE,
       map |-> [t \in tokens |-> IF t = "cbBTC" THEN 10
                                 ELSE IF t = "cbADA" THEN 0 ELSE 5]],
      [set |-> TRUE, parses |-> TRUE,
       map |-> [t \in tokens |-> IF t \in {"cbBTC", "WETH"} THEN 14 ELSE 0]],
      [set |-> TRUE, parses |-> TRUE, map |-> [t \in {"cbBTC"} |-> 10]] }

\* 1 / Object.keys(this.tokens).length for every token
EqualAllocation == [t \in tokens |-> WeightScale \div Cardinality(tokens)]

\* RebalanceBot.constructor: this.weights
ConstructorWeights(setting) ==
    IF setting.set
    THEN IF setting.parses THEN setting.map ELSE EqualAllocation
    ELSE EqualAllocation

\* parseFloat(process.env.DEVIATION_THRESHOLD) || 0.05, in twentieths
DefaultThreshold == 1

\* parseFloat(process.env.MIN_TRADE_USD) || 5.0
DefaultMinTradeUSD == 5

\* POST /api/config: Math.abs(totalWeight - 1) > 0.01 rejects the request
ConfigWeightsRejected(customWeights) ==
    Abs(WeightSum(customWeights) - WeightScale) * 100 > WeightScale

\* the customWeights of a request body: 0.25 each, 0.5/0.25/0.25/0,
\* 0.5/0.5 for two tokens only, 0.7/0.7/0/0 and 0.25/0.25/0.25/0.2
ConfigWeightChoices ==
    { [t \in tokens |-> 5],
      [t \in tokens |-> IF t = "WETH" THEN 10 ELSE IF t = "cbADA" THEN 0 ELSE 5],
      [t \in {"cbBTC", "WETH"} |-> 10],
      [t \in tokens |-> IF t \in {"cbBTC", "WETH"} THEN 14 ELSE 0],
      [t \in tokens |-> IF t = "cbADA" THEN 4 ELSE 5] }

\* the body of a POST /api/config: <<>> is a field left out; the threshold
\* is given in percent
ConfigBodies ==
    [deviationThreshold : {<<>>, <<5>>, <<10>>},
     minTradeUSD : {<<>>, <<1>>, <<2>>},
     customWeights : {<<>>} \cup {<<w>> : w \in ConfigWeightChoices}]

\* priceCache.maxAge: 5 * 60 * 1000 ms, in minutes
MaxAgeMinutes == 5

\* RebalanceBot.constructor: this.priceCache
ConstructorPriceCache ==
    [prices |-> NoMap, timestamp |-> 0, maxAge |-> MaxAgeMinutes]

\* getPricesFromBinance: this.priceCache = { prices, timestamp: Date.now() }
FetchedPriceCache(fetched, time) == [prices |-> fetched, timestamp |-> time]

\* getPrices: this.priceCache.timestamp &&
\*            (now - this.priceCache.timestamp) < this.priceCache.maxAge
\* (a comparison with the undefined maxAge of a cache object is false)
CacheFresh(cache, time) ==
    /\ cache.timestamp # 0
    /\ "maxAge" \in DOMAIN cache
    /\ (time - cache.timestamp) < cache.maxAge

\* what the price source answers: <<>> for an error or a timeout, <<p>>
\* for the tickers that make the price map p: a price for every token, the
\* tickers of fewer tokens, or a ticker whose price is not a number
SourceAnswers ==
    {<<>>} \cup {<<p>> : p \in PriceChoices \cup PartialPriceChoices
                                          \cup NaNPriceChoices}

\* getPricesFromBinance: every answer is accepted
EnoughPricesAlways(fetched) == TRUE

\* getPricesFromBinance: Object.keys(prices).length >= 6, the number of the
\* tracked tokens
EnoughPrices(fetched) == Cardinality(DOMAIN fetched) >= Cardinality(tokens)

\* getPricesFromBinance: the price map, or <<>> for null (the request
\* failed or brought fewer prices than tokens)
getPricesFromBinance(answer) ==
    IF Len(answer) > 0 /\ EnoughPrices(answer[1]) THEN answer ELSE <<>>

\* RebalanceBot.constructor: this.lastKnownPrices after loadData() has read
\* the file and the next statement has assigned {}
ConstructorLastKnownPrices(file) == NoMap

\* the price map p of a cycle as the object getPrices returned: a token
\* without a number in p has the price NaN
AsFetched(p) == [t \in tokens |-> IF t \in DOMAIN p THEN p[t] ELSE NaN]

\* rebalance-data.json when the process starts: no file, or the prices a
\* previous run saved
DataFileChoices == {NoMap} \cup PriceChoices

\* this.initialBalances as the constructor sets it (a fixed map of the
\* program text)
ConstructorInitialBalances == [t \in tokens |-> QtyScale]

\* saveData writing the working balances of the pass as the baseline
SavedBaselineWorking(initial, date, working) ==
    <<[initialBalances |-> working, startDate |-> date]>>

\* saveData: the baseline part of what is written to rebalance-data.json
\* (<<>> stands for no file)
SavedBaseline(initial, date, working) ==
    <<[initialBalances |-> initial, startDate |-> date]>>

\* RebalanceBot.constructor with loadData: this.initialBalances
LoadedInitialBalances(saved) ==
    IF Len(saved) > 0 THEN saved[1].initialBalances
    ELSE ConstructorInitialBalances

\* RebalanceBot.constructor with loadData: this.startDate
LoadedStartDate(saved, time) ==
    IF Len(saved) > 0 THEN saved[1].startDate ELSE time

\* a number or NaN: <<v>> is the number v, <<>> is NaN
NotANumber == <<>>

\* the sum of b[token] * p[token] over the keys of b, without a test for
\* NaN
SumOfValues(b, p) ==
    IF \A t \in DOMAIN b : HasValue(p, t)
    THEN <<SumOver([t \in DOMAIN b |-> b[t] * p[t]], DOMAIN b)>>
    ELSE NotANumber

\* a - b
Minus(a, b) == IF a = NotANumber \/ b = NotANumber THEN NotANumber
               ELSE <<a[1] - b[1]>>

\* this.lastKnownPrices[token] || currentPrices[token]
KnownOrCurrent(known, p) ==
    [t \in (DOMAIN known) \cup (DOMAIN p) |->
        IF HasValue(known, t) /\ known[t] # 0 THEN known[t]
        ELSE IF t \in DOMAIN p THEN p[t] ELSE NaN]

\* hodlValue > 0 ? (rebalanceVsHodl / hodlValue) * 100 : 0, as a fraction
PercentOf(part, whole) ==
    IF whole # NotANumber /\ whole[1] > 0
    THEN IF part = NotANumber THEN NotANumber
         ELSE <<[num |-> part[1] * 100, den |-> whole[1]]>>
    ELSE <<[num |-> 0, den |-> 1]>>

\* the comparison with the difference forced to zero
calculateHodlComparisonZero(currentBalances, currentPrices, initial, known) ==
    [currentValue |-> SumOfValues(currentBalances, currentPrices),
     hodlValue |-> SumOfValues(initial, currentPrices),
     initialValue |-> SumOfValues(initial, currentPrices),
     rebalanceVsHodl |-> <<0>>,
     rebalanceVsHodlPercent |-> <<[num |-> 0, den |-> 1]>>]

\* RebalanceBot.calculateHodlComparison (the value fields of its result)
calculateHodlComparison(currentBalances, currentPrices, initial, known) ==
    LET currentValue == SumOfValues(currentBalances, currentPrices)
        hodlValue == SumOfValues(initial, currentPrices)
        initialValue ==
            IF DOMAIN known # {}
            THEN SumOfValues(initial, KnownOrCurrent(known, currentPrices))
            ELSE hodlValue
        rebalanceVsHodl == Minus(currentValue, hodlValue)
    IN [currentValue |-> currentValue,
        hodlValue |-> hodlValue,
        initialValue |-> initialValue,
        rebalanceVsHodl |-> rebalanceVsHodl,
        rebalanceVsHodlPercent |-> PercentOf(rebalanceVsHodl, hodlValue)]

\* getBalances: the balance of a token whose query fails is 0
getBalances(onChain, failed) ==
    [t \in tokens |-> IF t \in failed THEN 0 ELSE onChain[t]]

\* the tokens whose balance query fails in one call of getBalances
BalanceFailureChoices == {{}, {"cbXRP"}}

\* the wallet: $10 of every token, or $40 of cbXRP alone (prices are $1)
WalletChoices ==
    { [t \in tokens |-> 10 * QtyScale],
      [t \in tokens |-> IF t = "cbXRP" THEN 40 * QtyScale ELSE 0] }

\* what the price source answers to the loop: a failure or every price $1
LoopSourceAnswers == {<<>>, <<[t \in tokens |-> 1]>>}

\* the cycle runs whatever getPrices returned
PricesAvailableAlways(got) == TRUE

\* if (prices) of the loop, if (!prices) return of POST /api/rebalance
PricesAvailable(got) == Len(got) > 0

\* an error thrown in the cycle ends the loop
AfterLoopErrorExit(position) == "exited"

\* catch (e) of the loop: the error is logged and the loop goes on to its
\* wait
AfterLoopError(position) == "wait"

\* no request of POST /api/rebalance in progress
NoRequest ==
    [pc |-> "idle", failedReads |-> {}, pricesRead |-> FALSE, got |-> <<>>,
     planned |-> FALSE, todo |-> 0, calls |-> 0]

\* no loop: the bot has not been started
NoLoop ==
    [pc |-> "none", failedReads |-> {}, pricesRead |-> FALSE, got |-> <<>>,
     outcome |-> "none", stoppedMidPass |-> FALSE]

\* nothing compared yet
NoComparison == <<>>

\* no call of swap made and no Telegram command received yet
IoIdle ==
    /\ posted = <<>>
    /\ swapCall = [pc |-> "idle", from |-> "", to |-> "", amount |-> 0,
                   allowanceOk |-> FALSE, quote |-> <<>>, returned |-> <<>>]
    /\ telegram = <<>>

\* ------------------------------------------------------------------ Init
\* the bot of a running cycle: started, its prices fetched at this minute
BotInCycle ==
    /\ customWeightsSetting = [set |-> FALSE, parses |-> FALSE, map |-> NoMap]
    /\ botExists = TRUE
    /\ botRunning = TRUE
    /\ now = 1
    /\ priceCache = FetchedPriceCache(AsFetched(prices), now)
    /\ lastKnownPrices = AsFetched(prices)
    /\ dataFile = AsFetched(prices)
    /\ lastGet = [at |-> now, fetched |-> TRUE,
                  answer |-> <<AsFetched(prices)>>,
                  result |-> <<AsFetched(prices)>>]
    /\ loop = [pc |-> "pass", failedReads |-> {}, pricesRead |-> TRUE,
               got |-> <<AsFetched(prices)>>, outcome |-> "none",
               stoppedMidPass |-> FALSE]
    /\ isRunning = TRUE
    /\ wallet = balances
    /\ manual = NoRequest
    /\ initialBalances = ConstructorInitialBalances
    /\ startDate = now
    /\ savedBaseline = SavedBaseline(initialBalances, startDate, balances)
    /\ comparison = NoComparison

\* the locals of a pass before it runs
FreshLocals ==
    /\ currentWeights = [num |-> [t \in tokens |-> 0], den |-> 1]
    /\ totalValue = 0
    /\ trades = <<>>
    /\ sellTrades = <<>>
    /\ buyTrades = <<>>
    /\ neededWethValue = 0
    /\ remainingNeeded = 0
    /\ overweightTokens = <<>>
    /\ idx = 0
    /\ swapLog = <<>>
    /\ pauseLog = <<>>
    /\ report = ""

\* a pass about to run
PassStart ==
    /\ FreshLocals
    /\ pc = "check"

\* no pass in progress
PassIdle ==
    /\ FreshLocals
    /\ pc = "idle"

\* what a cycle reads (getBalances, getPrices) and the configuration it
\* runs with
InitCycle ==
    /\ balances \in [tokens -> BalanceChoices]
    /\ prices \in PriceChoices \cup PartialPriceChoices
    /\ priceUnit = PriceUnits
    /\ weights \in WeightChoices
    /\ deviationThreshold \in ThresholdChoices
    /\ minTradeUSD \in MinTradeChoices

\* the pass given balances {A: 100, B: 0, base: 0}, prices {A: 1, base: 1},
\* targets {A: 0.5, base: 0.5}, threshold 0.05 and minimum trade $1, with
\* A = cbXRP and base = WETH; the other tokens have balance 0 and, like B,
\* either no price and no target or the price 1 and the target 0
InitScenario ==
    /\ balances = [t \in tokens |-> IF t = "cbXRP" THEN 100 * QtyScale ELSE 0]
    /\ prices \in { [t \in {"cbXRP", "WETH"} |-> 1], [t \in tokens |-> 1] }
    /\ priceUnit = [t \in tokens |-> 1]
    /\ weights \in { [t \in {"cbXRP", "WETH"} |-> 10],
                     [t \in tokens |-> IF t \in {"cbXRP", "WETH"}
                                       THEN 10 ELSE 0] }
    /\ deviationThreshold = 1
    /\ minTradeUSD = 1

Init ==
    /\ InitCycle \/ InitScenario
    /\ BotInCycle
    /\ PassStart
    /\ IoIdle

\* --------------------------------------------------------------- actions
\* start(): const currentWeights = await this.calculateWeights(balances, prices)
CalculateWeights ==
    /\ pc = "check"
    /\ currentWeights' = calculateWeights(balances, prices)
    /\ pc' = "rebalance"
    /\ UNCHANGED <<balances, prices, priceUnit, weights, deviationThreshold,
                   minTradeUSD,
                   totalValue, trades, sellTrades, buyTrades, neededWethValue,
                   remainingNeeded, overweightTokens, idx, swapLog,
                   report>>
    /\ UNCHANGED pauseLog
    /\ UNCHANGED <<serverVars, priceVars, cycleVars, baselineVars>>
    /\ UNCHANGED ioVars

\* rebalance: detection, partition and sort
Detect ==
    /\ pc = "rebalance"
    /\ totalValue' = TotalValueOf(balances, prices)
    /\ trades' = DetectTrades(currentWeights, weights, deviationThreshold,
                              totalValue', minTradeUSD)
    /\ IF NeedsRebalance(trades')
       THEN /\ sellTrades' = SortSells(trades')
            /\ buyTrades' = SortBuys(trades')
            /\ pc' = After(pc)
            /\ idx' = 1
            /\ UNCHANGED report
       ELSE /\ UNCHANGED <<sellTrades, buyTrades, idx>>
            /\ pc' = "done"
            /\ report' = "Check complete - no rebalance needed"
    /\ UNCHANGED <<balances, prices, priceUnit, weights, deviationThreshold,
                   minTradeUSD,
                   currentWeights, neededWethValue, remainingNeeded,
                   overweightTokens, swapLog>>
    /\ UNCHANGED pauseLog
    /\ UNCHANGED <<serverVars, priceVars, cycleVars, baselineVars>>
    /\ UNCHANGED ioVars

\* rebalance, sell phase: one iteration of for (const trade of sellTrades)
SellStep ==
    /\ pc = "sell"
    /\ idx <= Len(sellTrades)
    /\ LET trade == sellTrades[idx]
           currentValue == balances[trade.token] * prices[trade.token]
           targetValue == TargetValue(totalValue, weights, trade.token)
           excessValue == currentValue - targetValue
           sellAmount == excessValue \div prices[trade.token]
       IN IF HasTarget(weights, trade.token)
             /\ AboveSellDust(trade.token, sellAmount)
          THEN \E outcome \in SwapOutcomes :
                 LET res == swap(trade.token, baseToken, outcome)
                 IN /\ swapLog' = Append(swapLog,
                          SwapCall("sell", trade.token, baseToken,
                                   sellAmount, res))
                    /\ balances' = BalancesAfterSell(balances, trade.token,
                                      sellAmount,
                                      WethReceived(excessValue, prices),
                                      res.success)
                    /\ pc' = PositionAfterTrade(pc, res.success)
          ELSE UNCHANGED <<balances, swapLog, pc>>
    /\ pauseLog' = Pause(pauseLog, Len(swapLog'))
    /\ idx' = idx + 1
    /\ UNCHANGED <<prices, priceUnit, weights, deviationThreshold, minTradeUSD,
                   currentWeights, totalValue, trades, sellTrades, buyTrades,
                   neededWethValue, remainingNeeded, overweightTokens,
                   report>>
    /\ UNCHANGED <<serverVars, priceVars, cycleVars, baselineVars>>
    /\ UNCHANGED ioVars

\* rebalance: the sell loop ends
SellEnd ==
    /\ pc = "sell"
    /\ idx > Len(sellTrades)
    /\ pc' = After(pc)
    /\ idx' = 1
    /\ UNCHANGED <<balances, prices, priceUnit, weights, deviationThreshold,
                   minTradeUSD,
                   currentWeights, totalValue, trades, sellTrades, buyTrades,
                   neededWethValue, remainingNeeded, overweightTokens, swapLog,
                   report>>
    /\ UNCHANGED pauseLog
    /\ UNCHANGED <<serverVars, priceVars, cycleVars, baselineVars>>
    /\ UNCHANGED ioVars

\* rebalance: if (wethTrade) { neededWethValue, remainingNeeded,
\* overweightTokens }; without a wethTrade the block is skipped
DeficitStart ==
    /\ pc = "deficit_start"
    /\ IF HasWethTrade(buyTrades)
       THEN LET currentWethValue == balances[baseToken] * prices[baseToken]
                targetWethValue == TargetValue(totalValue, weights, baseToken)
            IN /\ neededWethValue' = targetWethValue - currentWethValue
               /\ remainingNeeded' = targetWethValue - currentWethValue
               /\ overweightTokens' =
                      OverweightTokens(currentWeights, weights, balances,
                                       prices, totalValue)
               /\ pc' = "deficit"
       ELSE /\ UNCHANGED <<neededWethValue, remainingNeeded, overweightTokens>>
            /\ pc' = After("deficit")
    /\ idx' = 1
    /\ UNCHANGED <<balances, prices, priceUnit, weights, deviationThreshold,
                   minTradeUSD,
                   currentWeights, totalValue, trades, sellTrades, buyTrades,
                   swapLog,
                   report>>
    /\ UNCHANGED pauseLog
    /\ UNCHANGED <<serverVars, priceVars, cycleVars, baselineVars>>
    /\ UNCHANGED ioVars

\* rebalance, base-deficit phase: one iteration of
\* for (const overweight of overweightTokens)
DeficitStep ==
    /\ pc = "deficit"
    /\ idx <= Len(overweightTokens)
    /\ ~DeficitCovered(remainingNeeded)
    /\ LET overweight == overweightTokens[idx]
           sellValue == SellValueOf(overweight.excessValue, remainingNeeded)
           sellAmount == sellValue \div prices[overweight.token]
       IN IF sellValue > minTradeUSD * QtyScale
          THEN \E outcome \in SwapOutcomes :
                 LET res == swap(overweight.token, baseToken, outcome)
                 IN /\ swapLog' = Append(swapLog,
                          SwapCall("deficit", overweight.token, baseToken,
                                   sellAmount, res))
                    /\ balances' = BalancesAfterSell(balances,
                                      overweight.token, sellAmount,
                                      WethReceived(sellValue, prices),
                                      res.success)
                    /\ remainingNeeded' = RemainingAfterSell(remainingNeeded,
                                             sellValue, res.success)
                    /\ pc' = PositionAfterTrade(pc, res.success)
                    /\ pauseLog' = Pause(pauseLog, Len(swapLog'))
          ELSE UNCHANGED <<balances, swapLog, remainingNeeded, pc, pauseLog>>
    /\ idx' = idx + 1
    /\ UNCHANGED <<prices, priceUnit, weights, deviationThreshold, minTradeUSD,
                   currentWeights, totalValue, trades, sellTrades, buyTrades,
                   neededWethValue, overweightTokens,
                   report>>
    /\ UNCHANGED <<serverVars, priceVars, cycleVars, baselineVars>>
    /\ UNCHANGED ioVars

\* rebalance, base-deficit phase: the loop ends (list exhausted, or
\* if (remainingNeeded <= 1) break)
DeficitEnd ==
    /\ pc = "deficit"
    /\ \/ idx > Len(overweightTokens)
       \/ DeficitCovered(remainingNeeded)
    /\ pc' = After(pc)
    /\ idx' = 1
    /\ UNCHANGED <<balances, prices, priceUnit, weights, deviationThreshold,
                   minTradeUSD,
                   currentWeights, totalValue, trades, sellTrades, buyTrades,
                   neededWethValue, remainingNeeded, overweightTokens, swapLog,
                   report>>
    /\ UNCHANGED pauseLog
    /\ UNCHANGED <<serverVars, priceVars, cycleVars, baselineVars>>
    /\ UNCHANGED ioVars

\* rebalance, buy phase: one iteration of for (const trade of buyTrades)
BuyStep ==
    /\ pc = "buy"
    /\ idx <= Len(buyTrades)
    /\ LET trade == buyTrades[idx]
           currentValue == balances[trade.token] * prices[trade.token]
           targetValue == TargetValue(totalValue, weights, trade.token)
           neededValue == targetValue - currentValue
           wethAmount == neededValue \div prices[baseToken]
       IN IF IsBaseTrade(trade)
          THEN UNCHANGED <<balances, swapLog, pc, pauseLog>>
          ELSE IF HasTarget(weights, trade.token)
                  /\ AboveBuyDust(wethAmount)
                  /\ SufficientWeth(balances, wethAmount)
          THEN \E outcome \in SwapOutcomes :
                 LET res == swap(baseToken, trade.token, outcome)
                 IN /\ swapLog' = Append(swapLog,
                          SwapCall("buy", baseToken, trade.token,
                                   wethAmount, res))
                    /\ balances' = BalancesAfterBuy(balances, wethAmount,
                                                    res.success)
                    /\ pc' = PositionAfterTrade(pc, res.success)
                    /\ pauseLog' = Pause(pauseLog, Len(swapLog'))
          ELSE /\ UNCHANGED <<balances, swapLog, pc>>
               /\ pauseLog' = Pause(pauseLog, Len(swapLog))
    /\ idx' = idx + 1
    /\ UNCHANGED <<prices, priceUnit, weights, deviationThreshold, minTradeUSD,
                   currentWeights, totalValue, trades, sellTrades, buyTrades,
                   neededWethValue, remainingNeeded, overweightTokens,
                   report>>
    /\ UNCHANGED <<serverVars, priceVars, cycleVars, baselineVars>>
    /\ UNCHANGED ioVars

\* rebalance: the buy loop ends, "Rebalanced portfolio"
Finish ==
    /\ pc = "buy"
    /\ idx > Len(buyTrades)
    /\ pc' = After(pc)
    /\ idx' = 1
    /\ report' = "Rebalanced portfolio"
    /\ UNCHANGED <<balances, prices, priceUnit, weights, deviationThreshold,
                   minTradeUSD,
                   currentWeights, totalValue, trades, sellTrades, buyTrades,
                   neededWethValue, remainingNeeded, overweightTokens, swapLog>>
    /\ UNCHANGED pauseLog
    /\ UNCHANGED <<serverVars, priceVars, cycleVars, baselineVars>>
    /\ UNCHANGED ioVars

Next ==
    \/ CalculateWeights
    \/ Detect
    \/ SellStep
    \/ SellEnd
    \/ DeficitStart
    \/ DeficitStep
    \/ DeficitEnd
    \/ BuyStep
    \/ Finish

Spec == Init /\ [][Next]_vars

\* ------------------------------------- the web server and its bot
\* no call of getPrices made yet
NoGet == [at |-> 0, fetched |-> FALSE, answer |-> <<>>, result |-> <<>>]

\* a process without a bot: no configuration, no pass
NoBot ==
    /\ weights = NoMap
    /\ deviationThreshold = 0
    /\ minTradeUSD = 0
    /\ balances = [t \in tokens |-> 0]
    /\ prices = NoMap
    /\ priceUnit = PriceUnits
    /\ PassStart

\* web-server.js loaded: let bot = null; let botRunning = false
InitServer ==
    /\ customWeightsSetting \in CustomWeightsChoices
    /\ botExists = FALSE
    /\ botRunning = FALSE
    /\ NoBot
    /\ priceCache = ConstructorPriceCache
    /\ lastKnownPrices = NoMap
    /\ dataFile \in DataFileChoices
    /\ now = 1
    /\ lastGet = NoGet
    /\ loop = NoLoop
    /\ isRunning = FALSE
    /\ wallet = [t \in tokens |-> 0]
    /\ manual = NoRequest
    /\ initialBalances = NoMap
    /\ startDate = 0
    /\ savedBaseline = IF dataFile = NoMap THEN <<>>
                       ELSE SavedBaseline(ConstructorInitialBalances, 0,
                                          balances)
    /\ comparison = NoComparison
    /\ IoIdle

\* POST /api/start: bot = new RebalanceBot(); botRunning = true
\* (the constructor installs the weights, the thresholds, an empty
\* lastKnownPrices and the price cache)
ApiStart ==
    /\ IF botRunning
       THEN UNCHANGED <<weights, deviationThreshold, minTradeUSD, botExists,
                        botRunning, priceCache, lastKnownPrices, isRunning,
                        initialBalances, startDate>>
       ELSE /\ weights' = ConstructorWeights(customWeightsSetting)
            /\ initialBalances' = LoadedInitialBalances(savedBaseline)
            /\ startDate' = LoadedStartDate(savedBaseline, now)
            /\ isRunning' = TRUE
            /\ deviationThreshold' = DefaultThreshold
            /\ minTradeUSD' = DefaultMinTradeUSD
            /\ botExists' = TRUE
            /\ botRunning' = TRUE
            /\ priceCache' = ConstructorPriceCache
            /\ lastKnownPrices' = ConstructorLastKnownPrices(dataFile)
    /\ UNCHANGED <<customWeightsSetting, passVars, dataFile, now, lastGet,
                   loop, wallet, manual, savedBaseline, comparison>>
    /\ UNCHANGED ioVars

\* POST /api/stop: bot.stop() (isRunning = false; saveData()),
\* botRunning = false; bot = null
ApiStop ==
    /\ IF ~botRunning
       THEN UNCHANGED <<weights, deviationThreshold, minTradeUSD, botExists,
                        botRunning, dataFile, isRunning, initialBalances,
                        startDate, savedBaseline>>
       ELSE /\ \E saved \in BOOLEAN :
                 /\ dataFile' = IF saved THEN lastKnownPrices ELSE dataFile
                 /\ savedBaseline' =
                        IF saved
                        THEN SavedBaseline(initialBalances, startDate,
                                           balances)
                        ELSE savedBaseline
            /\ isRunning' = FALSE
            /\ initialBalances' = NoMap
            /\ startDate' = 0
            /\ botRunning' = FALSE
            /\ botExists' = FALSE
            /\ weights' = NoMap
            /\ deviationThreshold' = 0
            /\ minTradeUSD' = 0
    /\ UNCHANGED <<customWeightsSetting, passVars, priceCache,
                   lastKnownPrices, now, lastGet, loop, wallet, manual,
                   comparison>>
    /\ UNCHANGED ioVars

\* POST /api/config: without a bot the request is refused; otherwise the
\* threshold and the minimum trade are set first, then customWeights is
\* checked, and installed when the check passes
ApiConfig ==
    /\ \E body \in ConfigBodies :
          IF ~botExists
          THEN UNCHANGED <<weights, deviationThreshold, minTradeUSD>>
          ELSE /\ deviationThreshold' =
                     IF Len(body.deviationThreshold) > 0
                     THEN (body.deviationThreshold[1] * WeightScale) \div 100
                     ELSE deviationThreshold
               /\ minTradeUSD' =
                     IF Len(body.minTradeUSD) > 0
                     THEN body.minTradeUSD[1]
                     ELSE minTradeUSD
               /\ weights' =
                     IF /\ Len(body.customWeights) > 0
                        /\ ~ConfigWeightsRejected(body.customWeights[1])
                     THEN body.customWeights[1]
                     ELSE weights
    /\ UNCHANGED <<passVars, serverVars, priceVars, cycleVars, baselineVars>>
    /\ UNCHANGED ioVars

NextConfig ==
    \/ ApiStart
    \/ ApiStop
    \/ ApiConfig

SpecConfig == InitServer /\ [][NextConfig]_vars

\* ------------------------------------------------ the price cache
\* a bot just constructed: the constructor's price cache, lastKnownPrices
\* emptied after loadData, no call of getPrices yet
InitPrices ==
    /\ customWeightsSetting = [set |-> FALSE, parses |-> FALSE, map |-> NoMap]
    /\ botExists = TRUE
    /\ botRunning = TRUE
    /\ weights = EqualAllocation
    /\ deviationThreshold = DefaultThreshold
    /\ minTradeUSD = DefaultMinTradeUSD
    /\ balances = [t \in tokens |-> 0]
    /\ prices = NoMap
    /\ priceUnit = PriceUnits
    /\ PassStart
    /\ priceCache = ConstructorPriceCache
    /\ dataFile \in DataFileChoices
    /\ lastKnownPrices = ConstructorLastKnownPrices(dataFile)
    /\ now = 1
    /\ lastGet = NoGet
    /\ loop = NoLoop
    /\ isRunning = TRUE
    /\ wallet = [t \in tokens |-> 0]
    /\ manual = NoRequest
    /\ savedBaseline = IF dataFile = NoMap THEN <<>>
                       ELSE SavedBaseline(ConstructorInitialBalances, 0,
                                          balances)
    /\ initialBalances = LoadedInitialBalances(savedBaseline)
    /\ startDate = LoadedStartDate(savedBaseline, now)
    /\ comparison = NoComparison
    /\ IoIdle

\* a minute passes
Tick ==
    /\ now < MaxTime
    /\ now' = now + 1
    /\ UNCHANGED <<balances, prices, priceUnit, weights, deviationThreshold,
                   minTradeUSD, currentWeights, totalValue, trades,
                   sellTrades, buyTrades, neededWethValue, remainingNeeded,
                   overweightTokens, idx, pc, swapLog, pauseLog, report,
                   serverVars, cycleVars, baselineVars,
                   priceCache, lastKnownPrices, dataFile, lastGet>>
    /\ UNCHANGED ioVars

\* RebalanceBot.getPrices with getPricesFromBinance and saveData: the cached
\* map while the cache is fresh; otherwise a call to the price source, whose
\* map replaces the cache object, is merged into lastKnownPrices and saved
\* with the baseline (the write may fail); after a failed fetch
\* lastKnownPrices, or null when it is empty
GetPricesCall(answer, saved) ==
    IF CacheFresh(priceCache, now)
    THEN /\ lastGet' = [at |-> now, fetched |-> FALSE, answer |-> <<>>,
                        result |-> <<priceCache.prices>>]
         /\ UNCHANGED <<priceCache, lastKnownPrices, dataFile, savedBaseline>>
    ELSE LET fetched == getPricesFromBinance(answer)
         IN IF Len(fetched) > 0
            THEN LET known == Merge(Merge(lastKnownPrices, fetched[1]),
                                    fetched[1])
                 IN /\ priceCache' = FetchedPriceCache(fetched[1], now)
                    /\ lastKnownPrices' = known
                    /\ dataFile' = IF saved THEN known ELSE dataFile
                    /\ savedBaseline' =
                           IF saved
                           THEN SavedBaseline(initialBalances, startDate,
                                              balances)
                           ELSE savedBaseline
                    /\ lastGet' = [at |-> now, fetched |-> TRUE,
                                   answer |-> answer,
                                   result |-> fetched]
            ELSE /\ UNCHANGED <<priceCache, lastKnownPrices, dataFile,
                                savedBaseline>>
                 /\ lastGet' = [at |-> now, fetched |-> TRUE,
                                answer |-> answer,
                                result |-> IF DOMAIN lastKnownPrices # {}
                                           THEN <<lastKnownPrices>>
                                           ELSE <<>>]

\* a call of getPrices
GetPrices ==
    /\ \E answer \in SourceAnswers, saved \in BOOLEAN :
          GetPricesCall(answer, saved)
    /\ UNCHANGED <<balances, prices, priceUnit, weights, deviationThreshold,
                   minTradeUSD, currentWeights, totalValue, trades,
                   sellTrades, buyTrades, neededWethValue, remainingNeeded,
                   overweightTokens, idx, pc, swapLog, pauseLog, report,
                   serverVars, cycleVars, initialBalances, startDate,
                   comparison, now>>
    /\ UNCHANGED ioVars

\* the process ends and a new one constructs its bot: the constructor's
\* price cache, and lastKnownPrices as the constructor leaves it after
\* loadData
Restart ==
    /\ priceCache' = ConstructorPriceCache
    /\ lastKnownPrices' = ConstructorLastKnownPrices(dataFile)
    /\ lastGet' = NoGet
    /\ initialBalances' = LoadedInitialBalances(savedBaseline)
    /\ startDate' = LoadedStartDate(savedBaseline, now)
    /\ UNCHANGED <<balances, prices, priceUnit, weights, deviationThreshold,
                   minTradeUSD, currentWeights, totalValue, trades,
                   sellTrades, buyTrades, neededWethValue, remainingNeeded,
                   overweightTokens, idx, pc, swapLog, pauseLog, report,
                   serverVars, cycleVars, savedBaseline, comparison,
                   dataFile, now>>
    /\ UNCHANGED ioVars

NextPrices ==
    \/ Tick
    \/ GetPrices
    \/ Restart

SpecPrices == InitPrices /\ [][NextPrices]_vars

\* ------------------------------------------------- shared by the claims
Positions ==
    {"idle", "check", "rebalance", "sell", "deficit_start", "deficit", "buy",
     "done"}

TypeOK ==
    /\ balances \in [tokens -> Int]
    /\ pc \in Positions
    /\ idx \in 0..(Len(TokenOrder) + 1)

Last(s) == s[Len(s)]

\* the step made a call to this.swap
SwapCalled == Len(swapLog') = Len(swapLog) + 1

PhaseRank(phase) ==
    CASE phase = "sell" -> 1
      [] phase = "deficit" -> 2
      [] phase = "buy" -> 3

\* the tokens of a list of trades
TokensOf(trs) == {trs[i].token : i \in 1..Len(trs)}

\* the value of a token at the balances b (0 for a token without a price)
ValueOf(b, t) == IF HasValue(prices, t) THEN b[t] * prices[t] ELSE 0

\* ------------------------------------------------------------------- C1
\* C1: in a pass every swap call of the sell phase comes before every swap
\* call of the base-deficit phase, and every base-deficit call before every
\* buy-phase call, whatever swaps failed.
C1_PhaseOrder ==
    \A i, j \in 1..Len(swapLog) :
        i < j => PhaseRank(swapLog[i].phase) <= PhaseRank(swapLog[j].phase)

\* a pass with calls of all three phases, one of them failed
C1_Witness ==
    /\ \E i, j, k \in 1..Len(swapLog) :
          /\ swapLog[i].phase = "sell"
          /\ swapLog[j].phase = "deficit"
          /\ swapLog[k].phase = "buy"
    /\ \E i \in 1..Len(swapLog) : ~swapLog[i].success

\* ------------------------------------------------------------------- C2
\* C2: a token is in the trade-intent list iff |currentWeight - targetWeight|
\* is strictly above the deviation threshold and |deviation * total value|
\* is strictly above the minimum trade value.  Stated on the values
\* balance * price and their sum V of the balances the pass was given:
\* |value * WeightScale - target * V| > threshold * V  and
\* |value * WeightScale - target * V| > minTradeUSD * WeightScale.
DetectedOn(t) ==
    LET V == ValueOf(balances, "cbBTC") + ValueOf(balances, "WETH")
             + ValueOf(balances, "cbXRP") + ValueOf(balances, "cbADA")
        dev == ValueOf(balances, t) * WeightScale - weights[t] * V
    IN /\ totalValue # NaN
       /\ HasTarget(weights, t)
       /\ V > 0
       /\ Abs(dev) > deviationThreshold * V
       /\ Abs(dev) > minTradeUSD * QtyScale * WeightScale

DetectionDone == pc \notin {"check", "rebalance"} /\ swapLog = <<>>

C2_FlaggedIff ==
    DetectionDone => \A t \in tokens : (t \in TokensOf(trades)) <=> DetectedOn(t)

\* |deviation| of a token, times V * WeightScale
DevOf(t) == Abs(ValueOf(balances, t) * WeightScale - weights[t] * totalValue)

\* a pass with a flagged token and a token that is exactly at the deviation
\* threshold, above the minimum trade value, and not flagged
C2_Witness ==
    /\ DetectionDone
    /\ trades # <<>>
    /\ \E t \in tokens :
          /\ DevOf(t) = deviationThreshold * totalValue
          /\ DevOf(t) > minTradeUSD * QtyScale * WeightScale
          /\ t \notin TokensOf(trades)

\* the other boundary: a token above the deviation threshold and exactly at
\* the minimum trade value (the two boundaries exclude each other in one pass)
C2_AtMinTrade ==
    /\ DetectionDone
    /\ trades # <<>>
    /\ \E t \in tokens :
          /\ DevOf(t) > deviationThreshold * totalValue
          /\ DevOf(t) = minTradeUSD * QtyScale * WeightScale
          /\ t \notin TokensOf(trades)

\* ------------------------------------------------------------------- C3
\* C3: every in-memory balance stays non-negative after every step of a
\* pass, for any pattern of swap successes and failures, and a buy swap is
\* issued only when the in-memory base-token balance is at least the base
\* amount to be spent.
NonNegativeBalances == \A t \in tokens : balances[t] >= 0

BuyWithinBalance ==
    (SwapCalled /\ Last(swapLog').phase = "buy")
        => balances[baseToken] >= Last(swapLog').amount

C3_NonNegative == []NonNegativeBalances /\ [][BuyWithinBalance]_vars

\* a pass with a successful sale that took a token down to balance 0, a
\* successful buy and a failed swap
C3_Witness ==
    /\ \E i \in 1..Len(swapLog) :
          /\ swapLog[i].phase = "sell"
          /\ swapLog[i].success
          /\ balances[swapLog[i].from] = 0
    /\ \E i \in 1..Len(swapLog) :
          swapLog[i].phase = "buy" /\ swapLog[i].success
    /\ \E i \in 1..Len(swapLog) : ~swapLog[i].success

\* ------------------------------------------------------------------- C4
\* C4: within one pass the swap executor is never called a second time for
\* the same (fromToken, toToken) pair after a call for that pair failed; a
\* token whose sell failed in the sell phase is not sold again in the
\* base-deficit phase.
C4_NoRetryAfterFailure ==
    \A i, j \in 1..Len(swapLog) :
        (i < j /\ ~swapLog[i].success)
            => ~(swapLog[i].from = swapLog[j].from
                 /\ swapLog[i].to = swapLog[j].to)

\* ------------------------------------------------------------------- C5
\* C5: a failed swap does not stop the pass: every loop of the pass runs to
\* its end (the base-deficit loop to its end or to remaining need <= $1),
\* and every trade that meets its own size and balance conditions is
\* attempted, whatever failed before it.
LoopsRunToTheEnd ==
    /\ (pc = "sell" /\ pc' # "sell") => idx > Len(sellTrades)
    /\ (pc = "deficit" /\ pc' # "deficit")
          => (\/ idx > Len(overweightTokens)
              \/ remainingNeeded <= DeficitStopUSD * QtyScale)
    /\ (pc = "buy" /\ pc' # "buy") => idx > Len(buyTrades)

SellTradeQualifies ==
    /\ pc = "sell"
    /\ idx <= Len(sellTrades)
    /\ (ValueOf(balances, sellTrades[idx].token)
          - (totalValue * weights[sellTrades[idx].token]) \div WeightScale)
       >= SellDustFloor * priceUnit[sellTrades[idx].token]
            * prices[sellTrades[idx].token]

DeficitTradeQualifies ==
    /\ pc = "deficit"
    /\ idx <= Len(overweightTokens)
    /\ remainingNeeded > DeficitStopUSD * QtyScale
    /\ remainingNeeded > minTradeUSD * QtyScale
    /\ overweightTokens[idx].excessValue > minTradeUSD * QtyScale

BuyTradeQualifies ==
    /\ pc = "buy"
    /\ idx <= Len(buyTrades)
    /\ buyTrades[idx].token # baseToken
    /\ ((totalValue * weights[buyTrades[idx].token]) \div WeightScale
          - ValueOf(balances, buyTrades[idx].token))
       >= BuyDustFloor * priceUnit[baseToken] * prices[baseToken]
    /\ ((totalValue * weights[buyTrades[idx].token]) \div WeightScale
          - ValueOf(balances, buyTrades[idx].token))
       <= balances[baseToken] * prices[baseToken]

QualifyingTradeAttempted ==
    /\ SellTradeQualifies
          => (SwapCalled /\ Last(swapLog').from = sellTrades[idx].token)
    /\ DeficitTradeQualifies
          => (SwapCalled /\ Last(swapLog').from = overweightTokens[idx].token)
    /\ BuyTradeQualifies
          => (SwapCalled /\ Last(swapLog').to = buyTrades[idx].token)

C5_FailureDoesNotStop ==
    [][LoopsRunToTheEnd /\ QualifyingTradeAttempted]_vars

\* a pass where a sale failed in the sell phase, a sale failed in the
\* base-deficit phase, and a buy was attempted after both
C5_Witness ==
    \E i, j, k \in 1..Len(swapLog) :
        /\ i < j /\ j < k
        /\ swapLog[i].phase = "sell" /\ ~swapLog[i].success
        /\ swapLog[j].phase = "deficit" /\ ~swapLog[j].success
        /\ swapLog[k].phase = "buy"

\* ------------------------------------------------------------------- C6
\* C6: when a swap fails in any phase the in-memory balance map after that
\* trade step is identical to the map before it, and in the base-deficit
\* phase the remaining need is not reduced.
FailedSwapChangesNothing ==
    (SwapCalled /\ ~Last(swapLog').success)
        => (balances' = balances /\ remainingNeeded' = remainingNeeded)

C6_FailureLeavesBalances == [][FailedSwapChangesNothing]_vars

\* a pass with a failed swap in each of the three phases
C6_Witness ==
    \E i, j, k \in 1..Len(swapLog) :
        /\ swapLog[i].phase = "sell" /\ ~swapLog[i].success
        /\ swapLog[j].phase = "deficit" /\ ~swapLog[j].success
        /\ swapLog[k].phase = "buy" /\ ~swapLog[k].success

\* ------------------------------------------------------------------- C7
\* C7: after a pass in which every planned swap succeeded, running the
\* detector again on the balances that result from applying all those swaps
\* (sold tokens debited, bought tokens credited, base token adjusted) with
\* the same prices, targets and thresholds yields no qualifying trade intent.
RECURSIVE BoughtQty(_, _)
BoughtQty(t, n) ==
    IF n = 0 THEN 0
    ELSE BoughtQty(t, n - 1)
         + (IF /\ swapLog[n].phase = "buy"
               /\ swapLog[n].to = t
               /\ swapLog[n].success
            THEN (swapLog[n].amount * prices[baseToken]) \div prices[t]
            ELSE 0)

PostPassBalances ==
    [t \in tokens |-> balances[t] + BoughtQty(t, Len(swapLog))]

RerunTrades ==
    DetectTrades(calculateWeights(PostPassBalances, prices), weights,
                 deviationThreshold, TotalValueOf(PostPassBalances, prices),
                 minTradeUSD)

AllSwapsSucceeded == \A i \in 1..Len(swapLog) : swapLog[i].success

C7_Idempotent ==
    (pc = "done" /\ trades # <<>> /\ AllSwapsSucceeded) => RerunTrades = <<>>

\* ------------------------------------------------------------------- C8
\* C8: in the base-deficit phase the overweight tokens are tried in order of
\* descending excess value, each sale has value min(that token's excess,
\* remaining need), the remaining need decreases by the sale value on each
\* success, no sale is attempted once the remaining need is <= $1, and the
\* total value sold in the phase never exceeds the shortfall computed at the
\* start of the phase (nothing is sold when that shortfall is not positive).
ExcessAtPhaseStart(t) ==
    LET i == CHOOSE k \in 1..Len(overweightTokens) :
                 overweightTokens[k].token = t
    IN overweightTokens[i].excessValue

DeficitCalls == {i \in 1..Len(swapLog) : swapLog[i].phase = "deficit"}

RECURSIVE DeficitSoldValue(_)
DeficitSoldValue(n) ==
    IF n = 0 THEN 0
    ELSE DeficitSoldValue(n - 1)
         + (IF swapLog[n].phase = "deficit" /\ swapLog[n].success
            THEN swapLog[n].amount * prices[swapLog[n].from]
            ELSE 0)

TriedInDescendingExcess ==
    /\ \A i, j \in 1..Len(overweightTokens) :
          i < j => overweightTokens[i].excessValue
                      >= overweightTokens[j].excessValue
    /\ \A i, j \in DeficitCalls :
          i < j => ExcessAtPhaseStart(swapLog[i].from)
                      >= ExcessAtPhaseStart(swapLog[j].from)

SoldWithinShortfall ==
    /\ DeficitSoldValue(Len(swapLog)) <= (IF neededWethValue > 0
                                          THEN neededWethValue ELSE 0)
    /\ DeficitSoldValue(Len(swapLog)) = neededWethValue - remainingNeeded

DeficitSaleStep ==
    (SwapCalled /\ Last(swapLog').phase = "deficit")
        => LET call == Last(swapLog')
               saleValue == call.amount * prices[call.from]
           IN /\ remainingNeeded > DeficitStopUSD * QtyScale
              /\ saleValue = Min(ExcessAtPhaseStart(call.from), remainingNeeded)
              /\ call.success => remainingNeeded' = remainingNeeded - saleValue

C8_DeficitPhase ==
    /\ [](TriedInDescendingExcess /\ SoldWithinShortfall)
    /\ [][DeficitSaleStep]_vars

\* a base-deficit phase that sold from two tokens, the larger excess first
\* and in full, the second sale cut down to the remaining need, which
\* covered the shortfall
C8_Witness ==
    /\ pc = "buy"
    /\ remainingNeeded = 0
    /\ \E i, j \in DeficitCalls :
          /\ i < j
          /\ swapLog[i].success
          /\ swapLog[j].success
          /\ swapLog[i].amount * prices[swapLog[i].from]
                = ExcessAtPhaseStart(swapLog[i].from)
          /\ swapLog[j].amount * prices[swapLog[j].from]
                < ExcessAtPhaseStart(swapLog[j].from)

\* ------------------------------------------------------------------- C9
\* C9: when the base token is flagged as underweight, the base-deficit phase
\* considers as a sale candidate every non-base token whose current weight
\* exceeds its target weight, flagged by the detector or not; when the base
\* token is not in the buy set, the base-deficit phase issues no swap.
OverweightNow(t) ==
    /\ HasTarget(weights, t)
    /\ currentWeights.num[t] * WeightScale > weights[t] * currentWeights.den

C9_DeficitCandidates ==
    /\ (pc \in {"deficit", "buy", "done"} /\ baseToken \in TokensOf(buyTrades))
          => TokensOf(overweightTokens)
                = {t \in tokens \ {baseToken} : OverweightNow(t)}
    /\ baseToken \notin TokensOf(buyTrades) => DeficitCalls = {}

\* a base-deficit phase that sold a token the detector had not flagged
C9_Witness ==
    \E i \in DeficitCalls :
        /\ swapLog[i].from \notin TokensOf(trades)
        /\ swapLog[i].success

\* ------------------------------------------------------------------ C10
\* C10: the buy phase never calls the swap executor with the base token as
\* the token to buy (a base token in the buy set is skipped), and no order
\* is submitted whose sold token and bought token are both the base token.
C10_NoBaseBuy ==
    \A i \in 1..Len(swapLog) :
        /\ swapLog[i].phase = "buy"
              => (swapLog[i].to # baseToken /\ swapLog[i].from = baseToken)
        /\ (swapLog[i].from = baseToken /\ swapLog[i].to = baseToken)
              => (~swapLog[i].submitted /\ ~swapLog[i].success)

\* a finished pass whose buy set holds the base token ahead of another
\* token, and that other token was bought
C10_Witness ==
    /\ pc = "done"
    /\ \E m, n \in 1..Len(buyTrades) :
          /\ m < n
          /\ buyTrades[m].token = baseToken
          /\ \E i \in 1..Len(swapLog) :
                /\ swapLog[i].phase = "buy"
                /\ swapLog[i].to = buyTrades[n].token
                /\ swapLog[i].success

\* the other case: the base token flagged overweight, the sell phase calls
\* swap with the base token on both sides and nothing is submitted
C10_SameTokenCall ==
    \E i \in 1..Len(swapLog) :
        swapLog[i].from = baseToken /\ swapLog[i].to = baseToken

\* ------------------------------------------------------------------ C11
\* C11: within the sell phase the flagged overweight tokens are processed in
\* order of descending deviation (largest excess first), and within the buy
\* phase the flagged underweight tokens are processed in order of ascending
\* deviation (largest deficit first): both lists are sorted that way, each
\* loop takes its list front to back, and the swap calls of each phase come
\* in that order.
DiffOfTrade(t) ==
    LET i == CHOOSE k \in 1..Len(trades) : trades[k].token = t
    IN trades[i].diff

CallsOf(phase) == {i \in 1..Len(swapLog) : swapLog[i].phase = phase}

ListsSorted ==
    /\ \A i, j \in 1..Len(sellTrades) :
          i < j => sellTrades[i].diff >= sellTrades[j].diff
    /\ \A i, j \in 1..Len(buyTrades) :
          i < j => buyTrades[i].diff <= buyTrades[j].diff
    /\ TokensOf(sellTrades) = {t \in TokensOf(trades) : DiffOfTrade(t) > 0}
    /\ TokensOf(buyTrades) = {t \in TokensOf(trades) : DiffOfTrade(t) < 0}

CallsInSortedOrder ==
    /\ \A i, j \in CallsOf("sell") :
          i < j => DiffOfTrade(swapLog[i].from) >= DiffOfTrade(swapLog[j].from)
    /\ \A i, j \in CallsOf("buy") :
          i < j => DiffOfTrade(swapLog[i].to) <= DiffOfTrade(swapLog[j].to)

ProcessedFrontToBack ==
    /\ (SwapCalled /\ Last(swapLog').phase = "sell")
          => (Last(swapLog').from = sellTrades[idx].token /\ idx' = idx + 1)
    /\ (SwapCalled /\ Last(swapLog').phase = "buy")
          => (Last(swapLog').to = buyTrades[idx].token /\ idx' = idx + 1)

C11_SortedProcessing ==
    /\ [](ListsSorted /\ CallsInSortedOrder)
    /\ [][ProcessedFrontToBack]_vars

\* a pass with two sell-phase calls and two buy-phase calls, where detection
\* found the smaller excess before the larger one
C11_Witness ==
    /\ \E i, j \in CallsOf("sell") :
          /\ i < j
          /\ DiffOfTrade(swapLog[i].from) > DiffOfTrade(swapLog[j].from)
    /\ \E i, j \in CallsOf("buy") :
          /\ i < j
          /\ DiffOfTrade(swapLog[i].to) < DiffOfTrade(swapLog[j].to)
    /\ \E m, n \in 1..Len(trades) :
          /\ m < n
          /\ trades[m].diff > 0
          /\ trades[n].diff > trades[m].diff

\* ------------------------------------------------------------------ C12
\* C12: a sell-phase trade whose computed sell amount is below the sell dust
\* floor (0.00001 units of the token) and a buy-phase trade whose computed
\* base amount is below the buy dust floor (0.0001 units of the base token)
\* never result in a call to swap: the step that processes such a trade
\* leaves the log of swap calls and the balances as they were, and every
\* call logged in the two phases has an amount at or above its floor.
\* The amounts are compared as values: amount * price < floor * price.
SellExcessValue(t) ==
    ValueOf(balances, t) - (totalValue * weights[t]) \div WeightScale

BuyNeededValue(t) ==
    (totalValue * weights[t]) \div WeightScale - ValueOf(balances, t)

SellFloorValue(t) == SellDustFloor * priceUnit[t] * prices[t]

BuyFloorValue == BuyDustFloor * priceUnit[baseToken] * prices[baseToken]

SellBelowDust ==
    /\ pc = "sell"
    /\ idx <= Len(sellTrades)
    /\ SellExcessValue(sellTrades[idx].token)
          < SellFloorValue(sellTrades[idx].token)

BuyBelowDust ==
    /\ pc = "buy"
    /\ idx <= Len(buyTrades)
    /\ BuyNeededValue(buyTrades[idx].token) < BuyFloorValue

DustStepMakesNoCall ==
    (SellBelowDust \/ BuyBelowDust)
        => (swapLog' = swapLog /\ balances' = balances)

CallsAboveFloors ==
    /\ \A i \in CallsOf("sell") :
          swapLog[i].amount >= SellDustFloor * priceUnit[swapLog[i].from]
    /\ \A i \in CallsOf("buy") :
          swapLog[i].amount >= BuyDustFloor * priceUnit[baseToken]

C12_DustNeverSwapped == [][DustStepMakesNoCall]_vars /\ []CallsAboveFloors

\* the buy loop has just passed over a flagged token whose base amount was
\* positive and below the buy dust floor, with base-token balance enough to
\* pay for it, in a pass whose sell loop passed over a flagged token whose
\* sell amount was positive and below the sell dust floor
C12_Witness ==
    /\ pc = "buy"
    /\ idx > 1
    /\ LET t == buyTrades[idx - 1].token
       IN /\ t # baseToken
          /\ BuyNeededValue(t) > 0
          /\ BuyNeededValue(t) < BuyFloorValue
          /\ BuyNeededValue(t) <= ValueOf(balances, baseToken)
          /\ \A i \in CallsOf("buy") : swapLog[i].to # t
    /\ \E k \in 1..Len(sellTrades) :
          LET t == sellTrades[k].token
          IN /\ SellExcessValue(t) > 0
             /\ SellExcessValue(t) < SellFloorValue(t)
             /\ \A i \in 1..Len(swapLog) : swapLog[i].from # t

\* ------------------------------------------------------------------ C13
\* C13: end-to-end, with balances {A: 100, B: 0, base: 0}, prices {A: 1,
\* base: 1}, targets {A: 0.5, base: 0.5}, threshold 0.05 and minimum trade
\* $1, and all swaps succeeding, one pass issues exactly one swap, a sale of
\* A into the base token, after which the in-memory base-token value is $50
\* less the 2% slippage assumption ($49) and the value of A is $50; no buy
\* swap is issued.  (A is cbXRP, base is WETH.)
InScenario ==
    /\ priceUnit = [t \in tokens |-> 1]
    /\ deviationThreshold = 1
    /\ minTradeUSD = 1

ScenarioOutcome ==
    /\ Len(swapLog) = 1
    /\ swapLog[1].from = "cbXRP"
    /\ swapLog[1].to = baseToken
    /\ swapLog[1].phase # "buy"
    /\ ValueOf(balances, baseToken)
          = ((50 * QtyScale) * SlippageNum) \div SlippageDen
    /\ ValueOf(balances, "cbXRP") = 50 * QtyScale
    /\ \A t \in tokens \ {"cbXRP", baseToken} : balances[t] = 0

C13_EndToEnd ==
    (InScenario /\ pc = "done" /\ AllSwapsSucceeded) => ScenarioOutcome

\* the same statement for the passes of the scenario in which every token,
\* B included, has a price
C13_EndToEndAllPriced ==
    (InScenario /\ pc = "done" /\ AllSwapsSucceeded
        /\ DOMAIN prices = tokens) => ScenarioOutcome

\* the scenario as given (B without a price) ends without a swap
C13_NoSwapAsGiven ==
    /\ InScenario
    /\ pc = "done"
    /\ DOMAIN prices = {"cbXRP", baseToken}
    /\ swapLog = <<>>
    /\ totalValue = NaN
    /\ report = "Check complete - no rebalance needed"

\* the scenario with a price for every token ends as stated
C13_OutcomeAllPriced ==
    /\ InScenario
    /\ pc = "done"
    /\ DOMAIN prices = tokens
    /\ DOMAIN weights = {"cbXRP", baseToken}
    /\ AllSwapsSucceeded
    /\ ScenarioOutcome

\* ------------------------------------------------------------------ C14
\* C14: if no token qualifies as a trade intent, the pass makes no call to
\* swap, changes no balance, and reports that no rebalance is needed: a
\* step that ends with an empty trade list leaves the balances and the
\* (empty) log of swap calls as they were, a pass that ended with an empty
\* trade list has the report "no rebalance needed", and no other pass has.
NoIntentStep ==
    (trades' = <<>>) => (balances' = balances /\ swapLog' = <<>>)

NoIntentReport ==
    /\ (pc = "done" /\ trades = <<>>)
          => (/\ swapLog = <<>>
              /\ report = "Check complete - no rebalance needed")
    /\ (report = "Check complete - no rebalance needed")
          => (pc = "done" /\ trades = <<>>)

C14_NoIntentNoSwap == [][NoIntentStep]_vars /\ []NoIntentReport

\* a finished pass that found no trade intent although a token is off its
\* target weight
C14_Witness ==
    /\ pc = "done"
    /\ trades = <<>>
    /\ totalValue # NaN
    /\ totalValue > 0
    /\ \E t \in tokens : DiffNum(currentWeights, weights, t) # 0
    /\ report = "Check complete - no rebalance needed"

\* ------------------------------------------------------------------ C15
\* C15: a successful buy-phase swap debits the in-memory base-token balance
\* by exactly the base amount spent and leaves every other in-memory balance
\* unchanged; the bought token's balance is not increased during the pass
\* (no step of a pass increases the balance of a token other than the base
\* token).
SuccessfulBuyDebitsBase ==
    (SwapCalled /\ Last(swapLog').phase = "buy" /\ Last(swapLog').success)
        => balances' = [balances EXCEPT
                           ![baseToken] = @ - Last(swapLog').amount]

NoCreditOutsideBase ==
    \A t \in tokens \ {baseToken} : balances'[t] <= balances[t]

C15_BuyDebitsBaseOnly ==
    [][SuccessfulBuyDebitsBase /\ NoCreditOutsideBase]_vars

\* the buy loop has just made a successful buy of a token whose balance is
\* what the pass was given (the purchase is not credited)
C15_Witness ==
    /\ pc = "buy"
    /\ swapLog # <<>>
    /\ Last(swapLog).phase = "buy"
    /\ Last(swapLog).success
    /\ Last(swapLog).amount > 0
    /\ ValueOf(balances, Last(swapLog).to) * currentWeights.den
          = currentWeights.num[Last(swapLog).to] * totalValue

\* ------------------------------------------------------------------ C18
\* C18: calculateWeights: for any balance map and price map whose total
\* value V (a token whose balance * price is not a number counted as zero)
\* is greater than 0, every returned weight is a number in [0, 1] and the
\* weights sum to 1; if V is 0 every weight is 0; the balance and price maps
\* passed in are not modified.
CountedTotal ==
    ValueOf(balances, "cbBTC") + ValueOf(balances, "WETH")
        + ValueOf(balances, "cbXRP") + ValueOf(balances, "cbADA")

WeightsComputed == pc \notin {"check"} /\ swapLog = <<>>

WeightsAreShares ==
    (WeightsComputed /\ CountedTotal > 0)
        => /\ currentWeights.den > 0
           /\ \A t \in tokens : /\ currentWeights.num[t] >= 0
                                /\ currentWeights.num[t] <= currentWeights.den
           /\ currentWeights.num["cbBTC"] + currentWeights.num["WETH"]
                 + currentWeights.num["cbXRP"] + currentWeights.num["cbADA"]
                 = currentWeights.den

WeightsZeroAtZero ==
    (WeightsComputed /\ CountedTotal = 0)
        => /\ currentWeights.den > 0
           /\ \A t \in tokens : currentWeights.num[t] = 0

InputsNotModified ==
    (pc = "check") => (balances' = balances /\ prices' = prices)

C18_WeightsSumToOne ==
    /\ [](WeightsAreShares /\ WeightsZeroAtZero)
    /\ [][InputsNotModified]_vars

\* the weights of a portfolio of positive value in which a token with a
\* positive balance has no price: that token has the weight 0
C18_Witness ==
    /\ pc = "rebalance"
    /\ CountedTotal > 0
    /\ \E t \in tokens :
          /\ ~HasValue(prices, t)
          /\ balances[t] > 0
          /\ currentWeights.num[t] = 0
    /\ \E t \in tokens :
          /\ currentWeights.num[t] > 0
          /\ currentWeights.num[t] < currentWeights.den

\* the other case: the weights of a portfolio of value 0
C18_ZeroValue ==
    /\ pc = "rebalance"
    /\ CountedTotal = 0
    /\ \E t \in tokens : balances[t] > 0
    /\ \A t \in tokens : currentWeights.num[t] = 0

\* ------------------------------------------------------------------ C19
\* C19: a token whose balance * price is not a number is treated as
\* contributing zero throughout a cycle: the total portfolio value the
\* rebalance pass uses for value differences and target values equals the
\* total the weight calculator used, so the remaining tokens are flagged
\* exactly as if that token were worth zero.
FlaggedAsIfZero ==
    {t \in tokens :
        /\ ExceedsThreshold(currentWeights, weights, deviationThreshold, t)
        /\ HasTarget(weights, t)
        /\ Abs(ValueOf(balances, t) * WeightScale - weights[t] * CountedTotal)
              > minTradeUSD * QtyScale * WeightScale}

C19_NaNCountsAsZero ==
    DetectionDone => /\ totalValue = CountedTotal
                     /\ TokensOf(trades) = FlaggedAsIfZero

\* the same statement for the cycles in which every token has a price
C19_AllPriced ==
    (DetectionDone /\ DOMAIN prices = tokens)
        => /\ totalValue = CountedTotal
           /\ TokensOf(trades) = FlaggedAsIfZero

\* a pass that flagged nothing because of a token without a price, where a
\* token is off target beyond both thresholds with that token counted as zero
C19_NothingFlagged ==
    /\ pc = "done"
    /\ swapLog = <<>>
    /\ totalValue = NaN
    /\ trades = <<>>
    /\ FlaggedAsIfZero # {}
    /\ balances = [t \in tokens |-> IF t = "cbXRP" THEN 3 * QtyScale
                                    ELSE IF t = "cbADA" THEN QtyScale ELSE 0]
    /\ weights = [t \in tokens |-> 5]
    /\ deviationThreshold = 1
    /\ minTradeUSD = 1

\* ------------------------------------------------------------------ C16
\* C16: in every reachable state the bot's target weight map sums to 1
\* (within 1e-6): a map violating this is never installed as the target
\* weights, neither at construction from the CUSTOM_WEIGHTS setting nor by
\* any sequence of configuration updates through the web endpoint.
C16_WeightsSumToOne == botExists => WeightSum(weights) = WeightScale

\* the part of the statement about the web endpoint: a configuration update
\* installs only a map that sums to 1 (sums are multiples of 0.05 here; the
\* endpoint's tolerance of 0.01 is below that resolution)
EndpointInstallsUnitSum ==
    (botExists /\ weights' # weights /\ botExists')
        => WeightSum(weights') = WeightScale

C16_EndpointChecksSum == [][EndpointInstallsUnitSum]_vars

\* a configuration update installed a map over two tokens only
C16_EndpointInstalled ==
    /\ botExists
    /\ weights = [t \in {"cbBTC", "WETH"} |-> 10]

\* ------------------------------------------------------------------ C17
\* C17: constructing the bot with a custom weight configuration that is
\* invalid (unparseable, or not summing to 1) ends in a startup error and no
\* running bot; the invalid configuration is never silently replaced by
\* other weights (such as equal allocation) or renormalized.
InvalidSetting ==
    /\ customWeightsSetting.set
    /\ \/ ~customWeightsSetting.parses
       \/ WeightSum(customWeightsSetting.map) # WeightScale

C17_InvalidConfigFailsStartup ==
    InvalidSetting => (~botExists /\ ~botRunning)

\* a bot running on equal allocation although CUSTOM_WEIGHTS was set to a
\* text that does not parse
C17_ReplacedByEqualAllocation ==
    /\ customWeightsSetting.set
    /\ ~customWeightsSetting.parses
    /\ botExists
    /\ botRunning
    /\ weights = EqualAllocation

\* a bot running on the weights 0.7/0.7/0/0 it was given
C17_InstalledAsGiven ==
    /\ InvalidSetting
    /\ customWeightsSetting.parses
    /\ botRunning
    /\ weights = customWeightsSetting.map
    /\ WeightSum(weights) = 28

\* ------------------------------------------------------------------ C20
\* C20: price cache hit: a getPrices call made less than the fixed TTL
\* (5 minutes) after a successful fetch returns the cached price map and
\* makes no call to the price source; only a call made at or after expiry
\* fetches again.
\* (priceCache.timestamp is the time of the last successful fetch; the steps
\* of SpecPrices that leave the clock alone are the calls of getPrices.)
WithinTTL ==
    /\ priceCache.timestamp # 0
    /\ now - priceCache.timestamp < MaxAgeMinutes

GetPricesStep == now' = now /\ lastGet' # NoGet

CacheHit ==
    (GetPricesStep /\ WithinTTL)
        => /\ ~lastGet'.fetched
           /\ lastGet'.result = <<priceCache.prices>>
           /\ priceCache' = priceCache

FetchAfterExpiry == (GetPricesStep /\ ~WithinTTL) => lastGet'.fetched

C20_CacheHit == [][CacheHit /\ FetchAfterExpiry]_vars

\* the second half alone: a call at or after expiry, or before any
\* successful fetch, goes to the price source
C20_FetchAfterExpiry == [][FetchAfterExpiry]_vars

\* the cache object after a fetch has no maxAge
C20_CacheWithoutMaxAge ==
    priceCache.timestamp # 0 => "maxAge" \notin DOMAIN priceCache

\* ---------------------------------------------------------------- C21
\* the call of getPrices just made went to the price source and the fetch
\* failed: an error or a timeout, or the tickers of fewer tokens than are
\* tracked
FailedFetch(get) ==
    /\ get.fetched
    /\ \/ Len(get.answer) = 0
       \/ Cardinality(DOMAIN get.answer[1]) < Cardinality(tokens)

\* the fallback of a failed fetch: lastKnownPrices as it was before the call
\* when it has an entry, null otherwise
FallbackReturned ==
    (GetPricesStep /\ FailedFetch(lastGet'))
        => /\ lastGet'.result = IF DOMAIN lastKnownPrices # {}
                                THEN <<lastKnownPrices>>
                                ELSE <<>>
           /\ lastKnownPrices' = lastKnownPrices
           /\ priceCache' = priceCache

\* the prices of a failed fetch are not what the call returns
PartialNotReturned ==
    (GetPricesStep /\ FailedFetch(lastGet'))
        => lastGet'.result # lastGet'.answer \/ lastGet'.answer = <<>>

\* C21: when the live price fetch fails (error, timeout, or fewer prices
\* than tracked tokens), getPrices returns the last-known price map if it
\* is non-empty and null otherwise; it never returns the partial result of
\* the failed fetch.
C21_FallbackOnFailure == [][FallbackReturned /\ PartialNotReturned]_vars

\* a fetch brought the tickers of fewer tokens than are tracked and the
\* call returned the last-known prices of an earlier fetch
C21_Witness ==
    /\ FailedFetch(lastGet)
    /\ Len(lastGet.answer) > 0
    /\ DOMAIN lastKnownPrices = tokens
    /\ lastGet.result = <<lastKnownPrices>>

\* a fetch failed with nothing known: the call returned null
C21_Absent ==
    /\ FailedFetch(lastGet)
    /\ lastKnownPrices = NoMap
    /\ lastGet.result = <<>>

\* ---------------------------------------------------------------- C22
\* the first call of getPrices by a bot constructed while the data file
\* holds saved prices, its fetch failing
FirstCallFailsWithSavedPrices ==
    /\ GetPricesStep
    /\ lastGet = NoGet
    /\ DOMAIN dataFile # {}
    /\ FailedFetch(lastGet')

\* C22: the last-known-price store is durable: after a successful fetch
\* has been saved, a restarted bot (a new instance that loads the persisted
\* data) whose live price fetch fails returns the persisted last-known
\* prices from getPrices rather than null.
C22_DurableLastKnownPrices ==
    [][FirstCallFailsWithSavedPrices => lastGet'.result = <<dataFile>>]_vars

\* what the program does instead: the constructor empties lastKnownPrices
\* after loadData, and the first failed fetch of every new bot returns null
C22_RestartedBotReturnsNull ==
    [][(GetPricesStep /\ lastGet = NoGet /\ FailedFetch(lastGet'))
          => lastGet'.result = <<>>]_vars

\* a bot that has fetched and saved prices, before it is restarted
C22_SavedBeforeRestart ==
    /\ lastGet.fetched
    /\ Len(lastGet.result) > 0
    /\ dataFile = lastKnownPrices
    /\ DOMAIN dataFile = tokens

\* ---------------------------------------------------------------- C23
\* a price map with a number for every tracked token
FullyPriced(p) == \A t \in tokens : t \in DOMAIN p /\ p[t] # NaN

\* C23: every value returned by getPrices, after any sequence of
\* successful fetches, failed fetches and restarts, is either null or a
\* price map that has a price for every tracked token.
C23_FullOrAbsent ==
    Len(lastGet.result) > 0 => FullyPriced(lastGet.result[1])

\* what does hold: every map returned has an entry for every tracked token
C23_EntryForEveryToken ==
    Len(lastGet.result) > 0 => DOMAIN lastGet.result[1] = tokens

\* the fallback returned a map with a price that is not a number
C23_NaNFromFallback ==
    /\ FailedFetch(lastGet)
    /\ Len(lastGet.result) > 0
    /\ ~FullyPriced(lastGet.result[1])

\* ---------------------------------------------------------------- C27
\* a step calls this.swap at most once, and the call has returned when the
\* step ends: the pass awaits each call before it goes on
OneSwapAtATime == Len(swapLog') <= Len(swapLog) + 1

\* when a swap call follows an earlier call of the pass, the last pause
\* was taken after that earlier call and lasted two seconds
PausedSinceLastSwap ==
    (SwapCalled /\ Len(swapLog) > 0)
        => /\ Len(pauseLog) > 0
           /\ Last(pauseLog).after = Len(swapLog)
           /\ Last(pauseLog).seconds = 2

\* C27: within one pass at most one swap call is in flight at a time, and
\* between the end of one swap call and the start of the next swap call of
\* the same pass the fixed pause (2 seconds) elapses, including across the
\* boundaries between the sell, base-deficit and buy phases.
C27_PauseBetweenSwaps == [][OneSwapAtATime /\ PausedSinceLastSwap]_vars

\* a pass that has called swap in the sell phase, in the base-deficit
\* phase and in the buy phase
C27_Witness ==
    /\ \E n \in 1..Len(swapLog) : swapLog[n].phase = "sell"
    /\ \E n \in 1..Len(swapLog) : swapLog[n].phase = "deficit"
    /\ \E n \in 1..Len(swapLog) : swapLog[n].phase = "buy"
    /\ \A n \in 1..(Len(swapLog) - 1) :
          \E k \in 1..Len(pauseLog) : pauseLog[k].after = n

\* ------------------------------------------------ the polling loop
\* a bot whose start() has reached its loop and called getBalances for the
\* first cycle; the wallet is what the chain reports in every cycle (the
\* orders the swaps submit settle later)
InitLoop ==
    /\ customWeightsSetting = [set |-> FALSE, parses |-> FALSE, map |-> NoMap]
    /\ botExists = TRUE
    /\ botRunning = TRUE
    /\ weights = ConstructorWeights(customWeightsSetting)
    /\ deviationThreshold = DefaultThreshold
    /\ minTradeUSD = DefaultMinTradeUSD
    /\ wallet \in WalletChoices
    /\ balances = [t \in tokens |-> 0]
    /\ prices = NoMap
    /\ priceUnit = [t \in tokens |-> 1]
    /\ PassIdle
    /\ priceCache = ConstructorPriceCache
    /\ dataFile = NoMap
    /\ lastKnownPrices = ConstructorLastKnownPrices(dataFile)
    /\ now = 1
    /\ lastGet = NoGet
    /\ loop = [NoLoop EXCEPT !.pc = "balances"]
    /\ isRunning = TRUE
    /\ manual = NoRequest
    /\ savedBaseline = <<>>
    /\ initialBalances = LoadedInitialBalances(savedBaseline)
    /\ startDate = LoadedStartDate(savedBaseline, now)
    /\ comparison = NoComparison
    /\ IoIdle

\* the loop: const balances = await this.getBalances() returns; getPrices
\* is called
LoopReadBalances ==
    /\ loop.pc = "balances"
    /\ \E failed \in BalanceFailureChoices :
          /\ balances' = getBalances(wallet, failed)
          /\ loop' = [loop EXCEPT !.pc = "prices", !.failedReads = failed,
                                  !.pricesRead = FALSE, !.got = <<>>]
    /\ prices' = NoMap
    /\ currentWeights' = [num |-> [t \in tokens |-> 0], den |-> 1]
    /\ totalValue' = 0
    /\ trades' = <<>>
    /\ sellTrades' = <<>>
    /\ buyTrades' = <<>>
    /\ neededWethValue' = 0
    /\ remainingNeeded' = 0
    /\ overweightTokens' = <<>>
    /\ idx' = 0
    /\ swapLog' = <<>>
    /\ pauseLog' = <<>>
    /\ report' = ""
    /\ pc' = "idle"
    /\ UNCHANGED <<priceUnit, weights, deviationThreshold, minTradeUSD,
                   serverVars, priceVars, isRunning, wallet, manual,
                   baselineVars>>
    /\ UNCHANGED ioVars

\* the loop: const prices = await this.getPrices() returns; with prices
\* the cycle goes on to calculateWeights and rebalance, without them it is
\* skipped and the loop waits
LoopReadPrices ==
    /\ loop.pc = "prices"
    /\ \E answer \in LoopSourceAnswers, saved \in BOOLEAN :
          GetPricesCall(answer, saved)
    /\ IF PricesAvailable(lastGet'.result)
       THEN /\ prices' = IF Len(lastGet'.result) > 0
                         THEN lastGet'.result[1] ELSE NoMap
            /\ pc' = "check"
            /\ loop' = [loop EXCEPT !.pc = "pass", !.pricesRead = TRUE,
                                    !.got = lastGet'.result]
       ELSE /\ UNCHANGED <<prices, pc>>
            /\ loop' = [loop EXCEPT !.pc = "wait", !.pricesRead = TRUE,
                                    !.got = lastGet'.result,
                                    !.outcome = "skipped"]
    /\ UNCHANGED <<balances, priceUnit, weights, deviationThreshold,
                   minTradeUSD, currentWeights, totalValue, trades,
                   sellTrades, buyTrades, neededWethValue, remainingNeeded,
                   overweightTokens, idx, swapLog, pauseLog, report,
                   serverVars, isRunning, wallet, manual, initialBalances,
                   startDate, comparison, now>>
    /\ UNCHANGED ioVars

\* the loop: await this.rebalance(...) returns; the loop waits
LoopSleep ==
    /\ loop.pc = "pass"
    /\ pc = "done"
    /\ loop' = [loop EXCEPT !.pc = "wait",
                            !.outcome = IF report = "Rebalanced portfolio"
                                        THEN "rebalanced" ELSE "nothing"]
    /\ pc' = "idle"
    /\ UNCHANGED <<balances, prices, priceUnit, weights, deviationThreshold,
                   minTradeUSD, currentWeights, totalValue, trades,
                   sellTrades, buyTrades, neededWethValue, remainingNeeded,
                   overweightTokens, idx, swapLog, pauseLog, report,
                   serverVars, priceVars, isRunning, wallet, manual,
                   baselineVars>>
    /\ UNCHANGED ioVars

\* the loop: a statement of the cycle throws; catch (e) logs the error
LoopError ==
    /\ loop.pc \in {"prices", "pass"}
    /\ loop' = [loop EXCEPT !.pc = AfterLoopError(loop.pc),
                            !.outcome = "error"]
    /\ pc' = "idle"
    /\ UNCHANGED <<balances, prices, priceUnit, weights, deviationThreshold,
                   minTradeUSD, currentWeights, totalValue, trades,
                   sellTrades, buyTrades, neededWethValue, remainingNeeded,
                   overweightTokens, idx, swapLog, pauseLog, report,
                   serverVars, priceVars, isRunning, wallet, manual,
                   baselineVars>>
    /\ UNCHANGED ioVars

\* a loop that goes on whatever stop() did
LoopGoesOnAlways(running) == TRUE

\* while (this.isRunning)
LoopGoesOn(running) == running

\* the loop: the wait of checkInterval is over; while (this.isRunning)
\* either starts the next cycle with a call of getBalances or ends the loop
LoopWake ==
    /\ loop.pc = "wait"
    /\ loop' = [loop EXCEPT !.pc = IF LoopGoesOn(isRunning) THEN "balances"
                                   ELSE "exited"]
    /\ UNCHANGED <<balances, prices, priceUnit, weights, deviationThreshold,
                   minTradeUSD, currentWeights, totalValue, trades,
                   sellTrades, buyTrades, neededWethValue, remainingNeeded,
                   overweightTokens, idx, pc, swapLog, pauseLog, report,
                   serverVars, priceVars, isRunning, wallet, manual,
                   baselineVars>>
    /\ UNCHANGED ioVars

\* the pass of the loop is under way and a swap it made has changed its
\* working balances
WorkingBalancesChanged ==
    /\ loop.pc = "pass"
    /\ pc \in {"sell", "deficit_start", "deficit", "buy"}
    /\ balances # getBalances(wallet, loop.failedReads)

\* POST /api/stop with a running bot: bot.stop() sets isRunning = false
\* and saves the data (the write may fail); botRunning = false; bot = null.
\* The bot object and its loop live on until the loop tests isRunning
\* (loop.stoppedMidPass records whether stop() came in the middle of a pass
\* with changed working balances)
Stop ==
    /\ botRunning
    /\ isRunning' = FALSE
    /\ \E saved \in BOOLEAN :
          /\ dataFile' = IF saved THEN lastKnownPrices ELSE dataFile
          /\ savedBaseline' =
                 IF saved
                 THEN SavedBaseline(initialBalances, startDate, balances)
                 ELSE savedBaseline
    /\ botRunning' = FALSE
    /\ botExists' = FALSE
    /\ loop' = [loop EXCEPT !.stoppedMidPass = WorkingBalancesChanged]
    /\ UNCHANGED <<customWeightsSetting, passVars, weights,
                   deviationThreshold, minTradeUSD, priceCache,
                   lastKnownPrices, now, lastGet, wallet, manual,
                   initialBalances, startDate, comparison>>
    /\ UNCHANGED ioVars

\* POST /api/rebalance with a bot: bot.getBalances() is called
ManualStart ==
    /\ manual.pc \in {"idle", "done"}
    /\ botExists
    /\ manual' = [NoRequest EXCEPT !.pc = "balances"]
    /\ UNCHANGED <<passVars, weights, deviationThreshold, minTradeUSD,
                   serverVars, priceVars, loop, isRunning, wallet,
                   baselineVars>>
    /\ UNCHANGED ioVars

\* POST /api/rebalance: await bot.getBalances() returns; bot.getPrices()
\* is called, which throws when bot has become null
ManualReadBalances ==
    /\ manual.pc = "balances"
    /\ \E failed \in BalanceFailureChoices :
          manual' = [manual EXCEPT !.pc = IF botExists THEN "prices"
                                         ELSE "done",
                                  !.failedReads = failed]
    /\ UNCHANGED <<passVars, weights, deviationThreshold, minTradeUSD,
                   serverVars, priceVars, loop, isRunning, wallet,
                   baselineVars>>
    /\ UNCHANGED ioVars

\* the trades a pass of the manual request detects
ManualTrades(failed, p) ==
    LET b == getBalances(wallet, failed)
    IN DetectTrades(calculateWeights(b, p), weights, deviationThreshold,
                    TotalValueOf(b, p), minTradeUSD)

\* POST /api/rebalance: await bot.getPrices() returns; without prices the
\* request ends with status 500, with prices bot.calculateWeights and
\* bot.rebalance are called, which throws when bot has become null
ManualReadPrices ==
    /\ manual.pc = "prices"
    /\ \E answer \in LoopSourceAnswers, saved \in BOOLEAN :
          GetPricesCall(answer, saved)
    /\ manual' =
          IF PricesAvailable(lastGet'.result) /\ botExists
          THEN LET trs == ManualTrades(manual.failedReads,
                                       IF Len(lastGet'.result) > 0
                                       THEN lastGet'.result[1] ELSE NoMap)
               IN [manual EXCEPT !.pc = IF NeedsRebalance(trs) THEN "pass"
                                        ELSE "done",
                                 !.pricesRead = TRUE,
                                 !.got = lastGet'.result,
                                 !.planned = TRUE,
                                 !.todo = Len(trs)]
          ELSE [manual EXCEPT !.pc = "done", !.pricesRead = TRUE,
                              !.got = lastGet'.result]
    /\ UNCHANGED <<passVars, weights, deviationThreshold, minTradeUSD,
                   serverVars, loop, isRunning, wallet, initialBalances,
                   startDate, comparison, now>>
    /\ UNCHANGED ioVars

\* POST /api/rebalance: the pass of the request handles its next trade,
\* with a call of swap or, for a trade it skips, without one
ManualTrade ==
    /\ manual.pc = "pass"
    /\ \E called \in BOOLEAN :
          manual' = [manual EXCEPT !.pc = IF manual.todo > 1 THEN "pass"
                                         ELSE "done",
                                  !.todo = manual.todo - 1,
                                  !.calls = manual.calls +
                                            IF called THEN 1 ELSE 0]
    /\ UNCHANGED <<passVars, weights, deviationThreshold, minTradeUSD,
                   serverVars, priceVars, loop, isRunning, wallet,
                   baselineVars>>
    /\ UNCHANGED ioVars

\* the steps of the loop
LoopStep ==
    \/ LoopReadBalances
    \/ LoopReadPrices
    \/ Next
    \/ LoopSleep
    \/ LoopWake

NextLoop ==
    \/ LoopStep
    \/ LoopError
    \/ Stop
    \/ ManualStart
    \/ ManualReadBalances
    \/ ManualReadPrices
    \/ ManualTrade

SpecLoop == InitLoop /\ [][NextLoop]_vars

\* every call the loop awaits returns or fails, and its timer fires
SpecLoopFair == SpecLoop /\ WF_vars(LoopStep)

\* ------------------------------------------------ the HODL comparison
\* the wallets of the comparison: the same quantity of every token, or
\* cbXRP alone
HodlWalletChoices ==
    { [t \in tokens |-> q] : q \in BalanceChoices }
        \cup { [t \in tokens |-> IF t = "cbXRP" THEN q ELSE 0] :
                  q \in BalanceChoices }

\* a bot with a wallet, before its first status report
InitHodl ==
    /\ customWeightsSetting = [set |-> FALSE, parses |-> FALSE, map |-> NoMap]
    /\ botExists = TRUE
    /\ botRunning = TRUE
    /\ weights = ConstructorWeights(customWeightsSetting)
    /\ deviationThreshold = DefaultThreshold
    /\ minTradeUSD = DefaultMinTradeUSD
    /\ wallet \in HodlWalletChoices
    /\ balances = [t \in tokens |-> 0]
    /\ prices = NoMap
    /\ priceUnit = PriceUnits
    /\ PassIdle
    /\ priceCache = ConstructorPriceCache
    /\ dataFile = NoMap
    /\ lastKnownPrices = ConstructorLastKnownPrices(dataFile)
    /\ now = 1
    /\ lastGet = NoGet
    /\ loop = NoLoop
    /\ isRunning = TRUE
    /\ manual = NoRequest
    /\ savedBaseline = <<>>
    /\ initialBalances = LoadedInitialBalances(savedBaseline)
    /\ startDate = LoadedStartDate(savedBaseline, now)
    /\ comparison = NoComparison
    /\ IoIdle

\* this.chatIds: the chat IDs listed in REBALANCE_CHAT_ID
chatIds == {1}

\* the chats a command can come from (msg.chat.id)
ChatChoices == {1, 2}

\* every chat taken for a listed one
AuthorizedAlways(chat) == TRUE

\* this.chatIds.includes(msg.chat.id.toString())
Authorized(chat) == chat \in chatIds

\* the handler of a command went on: it sent a message and, for every
\* command but /debug, queried the balances
Handled(chat, command, queried) ==
    <<[chat |-> chat, command |-> command, replied |-> TRUE,
       queried |-> queried]>>

\* if (!this.chatIds.includes(...)) return
Ignored(chat, command) ==
    <<[chat |-> chat, command |-> command, replied |-> FALSE,
       queried |-> FALSE]>>

\* everything but the record of the Telegram command
botVars == <<balances, prices, priceUnit, weights, deviationThreshold,
             minTradeUSD, currentWeights, totalValue, trades, sellTrades,
             buyTrades, neededWethValue, remainingNeeded, overweightTokens,
             idx, pc, swapLog, pauseLog, report, serverVars, priceVars,
             cycleVars, baselineVars, posted, swapCall>>

\* a baseline that stays as it was
ResetBaselineKept(currentBalances, initial) == initial

\* this.initialBalances = { ...currentBalances }
ResetBaseline(currentBalances, initial) == currentBalances

\* /reset_hodl past its test of the chat: the balances just read (a local
\* of the handler) become the baseline, which is saved (the write may
\* fail); the comparisons made with the old baseline are forgotten
resetHodl ==
    /\ \E failed \in BalanceFailureChoices, saved \in BOOLEAN :
          /\ initialBalances' = ResetBaseline(getBalances(wallet, failed),
                                              initialBalances)
          /\ startDate' = now
          /\ savedBaseline' =
                 IF saved THEN SavedBaseline(initialBalances', startDate',
                                             balances)
                 ELSE savedBaseline
          /\ dataFile' = IF saved THEN lastKnownPrices ELSE dataFile
    /\ comparison' = NoComparison
    /\ UNCHANGED <<balances, prices, priceUnit, weights, deviationThreshold,
                   minTradeUSD, currentWeights, totalValue, trades,
                   sellTrades, buyTrades, neededWethValue, remainingNeeded,
                   overweightTokens, idx, pc, swapLog, pauseLog, report,
                   serverVars, cycleVars,
                   priceCache, lastKnownPrices, now, lastGet>>

\* sendDetailedStatus (sendHodlComparison and sendPortfolioWithHodl do the
\* same): getBalances, getPrices (the price source gives one of answers)
\* and, with prices, the comparison of the balances with the baseline; the
\* balances and the prices are locals of the function
sendDetailedStatus(answers) ==
    /\ \E answer \in answers, saved \in BOOLEAN :
          GetPricesCall(answer, saved)
    /\ \E failed \in BalanceFailureChoices :
          IF Len(lastGet'.result) > 0
          THEN comparison' =
                   <<[currentBalances |-> getBalances(wallet, failed),
                      currentPrices |-> lastGet'.result[1],
                      initialBalances |-> initialBalances,
                      result |-> calculateHodlComparison(
                                     getBalances(wallet, failed),
                                     lastGet'.result[1], initialBalances,
                                     lastKnownPrices')]>>
          ELSE UNCHANGED comparison
    /\ UNCHANGED <<balances, prices, priceUnit, weights, deviationThreshold,
                   minTradeUSD, currentWeights, totalValue, trades,
                   sellTrades, buyTrades, neededWethValue, remainingNeeded,
                   overweightTokens, idx, pc, swapLog, pauseLog, report,
                   serverVars, cycleVars, initialBalances, startDate, now>>

\* bot.onText('/reset_hodl'), for a message of the given chat
OnResetHodl(chat) ==
    IF Authorized(chat)
    THEN /\ resetHodl
         /\ telegram' = Handled(chat, "/reset_hodl", TRUE)
         /\ UNCHANGED <<posted, swapCall>>
    ELSE /\ telegram' = Ignored(chat, "/reset_hodl")
         /\ UNCHANGED botVars

\* bot.onText('/status'), bot.onText('/hodl') and bot.onText('/portfolio'),
\* for a message of the given chat
OnStatus(chat, answers) ==
    IF Authorized(chat)
    THEN /\ sendDetailedStatus(answers)
         /\ telegram' = Handled(chat, "/status", TRUE)
         /\ UNCHANGED <<posted, swapCall>>
    ELSE /\ telegram' = Ignored(chat, "/status")
         /\ UNCHANGED botVars

\* a listed chat sends /reset_hodl
ResetHodl == \E chat \in chatIds : OnResetHodl(chat)

\* a listed chat sends /status, /hodl or /portfolio
HodlStatus == \E chat \in chatIds : OnStatus(chat, SourceAnswers)

NextHodl ==
    \/ ResetHodl
    \/ HodlStatus

SpecHodl == InitHodl /\ [][NextHodl]_vars

\* ------------------------- the configuration while the loop runs
\* the first cycle of the loop of a running bot, and requests to
\* POST /api/config that the server handles while the cycle waits on a
\* call or a pause
NextPassConfig ==
    \/ LoopReadBalances
    \/ LoopReadPrices
    \/ Next
    \/ ApiConfig

SpecPassConfig == InitLoop /\ [][NextPassConfig]_vars

\* --------------------------------- the baseline while the loop runs
\* a bot constructed at minute 1 without a data file, whose loop has
\* called getBalances for its first cycle at minute 2
InitBaseline ==
    /\ customWeightsSetting = [set |-> FALSE, parses |-> FALSE, map |-> NoMap]
    /\ botExists = TRUE
    /\ botRunning = TRUE
    /\ weights = ConstructorWeights(customWeightsSetting)
    /\ deviationThreshold = DefaultThreshold
    /\ minTradeUSD = DefaultMinTradeUSD
    /\ wallet \in WalletChoices
    /\ balances = [t \in tokens |-> 0]
    /\ prices = NoMap
    /\ priceUnit = [t \in tokens |-> 1]
    /\ PassIdle
    /\ priceCache = ConstructorPriceCache
    /\ dataFile = NoMap
    /\ lastKnownPrices = ConstructorLastKnownPrices(dataFile)
    /\ now = 2
    /\ lastGet = NoGet
    /\ loop = [NoLoop EXCEPT !.pc = "balances"]
    /\ isRunning = TRUE
    /\ manual = NoRequest
    /\ savedBaseline = <<>>
    /\ initialBalances = LoadedInitialBalances(savedBaseline)
    /\ startDate = LoadedStartDate(savedBaseline, 1)
    /\ comparison = NoComparison
    /\ IoIdle

\* the loop with stop(), resets, and /status, /hodl or /portfolio sent by
\* a listed chat while the loop runs (the price source answers as it does
\* to the loop)
NextBaseline ==
    \/ LoopStep
    \/ LoopError
    \/ Stop
    \/ ResetHodl
    \/ \E chat \in chatIds : OnStatus(chat, LoopSourceAnswers)

SpecBaseline == InitBaseline /\ [][NextBaseline]_vars

\* ------------------------------------------------ the Telegram commands
\* a bot with a wallet of one unit of every token, before its first
\* command and its first call of swap
InitTelegram ==
    /\ InitHodl
    /\ wallet = [t \in tokens |-> QtyScale]

\* some chat sends /reset_hodl
TelegramReset == \E chat \in ChatChoices : OnResetHodl(chat)

\* some chat sends /status, /hodl or /portfolio
TelegramStatus == \E chat \in ChatChoices : OnStatus(chat, SourceAnswers)

\* some chat sends /debug: bot.onText('/debug') replies to a listed chat
TelegramDebug ==
    /\ \E chat \in ChatChoices :
          telegram' = IF Authorized(chat) THEN Handled(chat, "/debug", FALSE)
                      ELSE Ignored(chat, "/debug")
    /\ UNCHANGED botVars

NextTelegram ==
    \/ TelegramReset
    \/ TelegramStatus
    \/ TelegramDebug

SpecTelegram == InitTelegram /\ [][NextTelegram]_vars

\* ------------------------------------------------ one call of swap
\* what the exchange answers to a quote request: <<>> for an error, a
\* timeout or a response without a buy amount, else the buyAmount of the
\* response, a whole number of atoms sent as a string or as a number
\* (digits tells whether the number prints as plain digits)
QuoteAnswers ==
    {<<>>}
       \cup {<<[type |-> "string", atoms |-> n, digits |-> TRUE]>> :
                n \in 0..MaxQuote}
       \cup {<<[type |-> "number", atoms |-> n, digits |-> d]>> :
                n \in 0..MaxQuote, d \in BOOLEAN}

\* if (quote.quote && quote.quote.buyAmount) ... else if (quote.buyAmount)
\* ... else throw: the number 0 counts as no buy amount, the string "0"
\* as one
HasBuyAmount(answer) ==
    /\ Len(answer) > 0
    /\ ~(answer[1].type = "number" /\ answer[1].atoms = 0)

\* RebalanceBot.getQuote: two attempts; the buy amount of the first
\* attempt that gives one, <<>> when both fail (the error is thrown)
getQuote(first, second) ==
    IF HasBuyAmount(first) THEN first
    ELSE IF HasBuyAmount(second) THEN second
    ELSE <<>>

\* swap: cleanQuote and BigInt(cleanQuote); <<>> when BigInt throws (a
\* number that does not print as plain digits)
cleanQuote(quoted) ==
    IF quoted.type = "number" /\ ~quoted.digits THEN <<>>
    ELSE <<quoted.atoms>>

\* the quote itself as the least amount accepted
MinBuyAmountQuoted(quotedBigInt) == quotedBigInt

\* (quotedBigInt * 98n / 100n)
MinBuyAmount(quotedBigInt) == (quotedBigInt * 98) \div 100

\* swap is called: a same-token pair is refused, then
\* checkAndSetAllowance runs; when it fails the call returns false
SwapEnter ==
    /\ swapCall.pc \in {"idle", "returned"}
    /\ \E fromToken \in tokens, toToken \in tokens,
          amount \in {QtyScale, 2 * QtyScale}, allowanceOk \in BOOLEAN :
          swapCall' =
             [pc |-> IF fromToken # toToken /\ allowanceOk THEN "quote"
                     ELSE "returned",
              from |-> fromToken, to |-> toToken, amount |-> amount,
              allowanceOk |-> fromToken # toToken /\ allowanceOk,
              quote |-> <<>>,
              returned |-> IF fromToken # toToken /\ allowanceOk THEN <<>>
                           ELSE <<FALSE>>]
    /\ posted' = <<>>
    /\ UNCHANGED <<balances, prices, priceUnit, weights, deviationThreshold,
                   minTradeUSD, currentWeights, totalValue, trades,
                   sellTrades, buyTrades, neededWethValue, remainingNeeded,
                   overweightTokens, idx, pc, swapLog, pauseLog, report,
                   serverVars, priceVars, cycleVars, baselineVars, telegram>>

\* swap: await this.getQuote(...) returns or throws; with a quote the
\* least buy amount is computed, unless BigInt throws
SwapQuote ==
    /\ swapCall.pc = "quote"
    /\ \E first \in QuoteAnswers, second \in QuoteAnswers :
          LET quoted == getQuote(first, second)
          IN swapCall' =
                IF Len(quoted) > 0 /\ Len(cleanQuote(quoted[1])) > 0
                THEN [swapCall EXCEPT !.pc = "order", !.quote = quoted]
                ELSE [swapCall EXCEPT !.pc = "returned", !.quote = quoted,
                                      !.returned = <<FALSE>>]
    /\ UNCHANGED <<balances, prices, priceUnit, weights, deviationThreshold,
                   minTradeUSD, currentWeights, totalValue, trades,
                   sellTrades, buyTrades, neededWethValue, remainingNeeded,
                   overweightTokens, idx, pc, swapLog, pauseLog, report,
                   serverVars, priceVars, cycleVars, baselineVars, telegram,
                   posted>>

\* swap: the order is signed and posted; the call returns true when the
\* exchange accepts it and false when it answers with an error
SwapOrder ==
    /\ swapCall.pc = "order"
    /\ posted' = <<[sellToken |-> swapCall.from,
                    buyToken |-> swapCall.to,
                    sellAmount |-> swapCall.amount,
                    buyAmount |->
                        MinBuyAmount(cleanQuote(swapCall.quote[1])[1]),
                    kind |-> "sell"]>>
    /\ \E accepted \in BOOLEAN :
          swapCall' = [swapCall EXCEPT !.pc = "returned",
                                       !.returned = <<accepted>>]
    /\ UNCHANGED <<balances, prices, priceUnit, weights, deviationThreshold,
                   minTradeUSD, currentWeights, totalValue, trades,
                   sellTrades, buyTrades, neededWethValue, remainingNeeded,
                   overweightTokens, idx, pc, swapLog, pauseLog, report,
                   serverVars, priceVars, cycleVars, baselineVars, telegram>>

NextSwap ==
    \/ SwapEnter
    \/ SwapQuote
    \/ SwapOrder

\* a bot before its first call of swap, and its calls
SpecSwap == InitTelegram /\ [][NextSwap]_vars


\* the comparison was made with current balances equal to the baseline
ComparedAtBaseline ==
    /\ comparison # NoComparison
    /\ comparison[1].currentBalances = comparison[1].initialBalances

\* rebalance-vs-hodl is the number 0 and so is its percentage
VsHodlIsZero ==
    /\ comparison[1].result.rebalanceVsHodl = <<0>>
    /\ comparison[1].result.rebalanceVsHodlPercent # NotANumber
    /\ comparison[1].result.rebalanceVsHodlPercent[1].num = 0

\* C30: calculateHodlComparison called with current balances equal to the
\* baseline balances returns rebalance-vs-hodl exactly 0 and the vs-hodl
\* percentage 0, for any price map.
C30_ZeroAtBaseline == ComparedAtBaseline => VsHodlIsZero

\* C30 for price maps with a number for every token: the difference and its
\* percentage are 0
C30_ZeroWhenPriced ==
    (/\ ComparedAtBaseline
     /\ \A t \in tokens : HasValue(comparison[1].currentPrices, t))
        => VsHodlIsZero

\* a comparison at the baseline, with a positive value, that is 0
C30_ZeroReached ==
    /\ ComparedAtBaseline
    /\ VsHodlIsZero
    /\ comparison[1].result.hodlValue # NotANumber
    /\ comparison[1].result.hodlValue[1] > 0

\* a comparison at the baseline whose difference is NaN
C30_NaNAtBaseline ==
    /\ ComparedAtBaseline
    /\ comparison[1].result.rebalanceVsHodl = NotANumber
    /\ comparison[1].result.rebalanceVsHodlPercent = <<[num |-> 0, den |-> 1]>>

\* the cycle of the loop in which getPrices returned null
LoopCycleSkipped == loop.pricesRead /\ loop.got = <<>>

\* no weights computed, no pass begun and no swap called in the cycle
NoPassInCycle ==
    /\ pc = "idle"
    /\ currentWeights = [num |-> [t \in tokens |-> 0], den |-> 1]
    /\ trades = <<>>
    /\ swapLog = <<>>

\* the manual request for which getPrices returned null
ManualSkipped == manual.pricesRead /\ manual.got = <<>>

\* the manual request has ended without weights, pass or swap
NoPassInRequest ==
    /\ manual.pc = "done"
    /\ ~manual.planned
    /\ manual.calls = 0

\* C24: in a polling cycle where getPrices returns absent, no weights are
\* computed, no rebalance pass runs and no call to the swap executor is
\* made; the same holds for the manual-rebalance endpoint.
C24_AbsentPricesNoPass ==
    /\ LoopCycleSkipped => NoPassInCycle
    /\ ManualSkipped => NoPassInRequest

\* a cycle of the loop skipped for missing prices, and a manual request
\* refused for them
C24_Witness ==
    /\ LoopCycleSkipped
    /\ loop.pc = "wait"
    /\ loop.outcome = "skipped"
    /\ ManualSkipped
    /\ NoPassInRequest

\* C25: if the balance query fails for any tracked token in a cycle, that
\* cycle is skipped entirely: no trade intent is computed from the failed
\* read and no call to the swap executor is made in that cycle.
C25_FailedReadSkipsCycle ==
    loop.failedReads # {} =>
        /\ pc = "idle"
        /\ trades = <<>>
        /\ swapLog = <<>>

\* the wallet holds its target weights, the read of cbXRP failed, and the
\* cycle has bought cbXRP for the balance 0 it assumed
C25_SpuriousBuy ==
    /\ wallet = [t \in tokens |-> 10 * QtyScale]
    /\ loop.failedReads = {"cbXRP"}
    /\ loop.pc = "pass"
    /\ \E i \in 1..Len(trades) : trades[i].token = "cbXRP" /\ IsBuy(trades[i])
    /\ swapLog # <<>>
    /\ Last(swapLog).to = "cbXRP"
    /\ Last(swapLog).success

\* a cycle whose reads all succeeded on the same wallet plans no trade
C25_NoTradeWhenRead ==
    (/\ wallet = [t \in tokens |-> 10 * QtyScale]
     /\ loop.failedReads = {}
     /\ loop.pc = "pass"
     /\ pc \notin {"check", "rebalance"})
        => trades = <<>>

\* the pass of the loop is between its first and its last trade
LoopPassInProgress ==
    /\ loop.pc = "pass"
    /\ pc \in {"sell", "deficit_start", "deficit", "buy"}

\* the pass of the manual request has trades left
ManualPassInProgress == manual.pc = "pass"

\* C26: cycles never overlap: at no time are two rebalance passes in
\* progress at once against the same wallet; a pass of the polling loop, a
\* pass started through the manual-rebalance endpoint and a pass of a bot
\* created by stop followed by start never interleave their swap calls.
C26_NoOverlap == ~(LoopPassInProgress /\ ManualPassInProgress)

\* both passes have called swap and both have trades left
C26_InterleavedCalls ==
    /\ LoopPassInProgress
    /\ swapLog # <<>>
    /\ pc = "buy"
    /\ idx <= Len(buyTrades)
    /\ ManualPassInProgress
    /\ manual.calls > 0

\* a stopped bot calls swap no more (violated: the pass in progress at
\* stop() goes on to its end)
C26_NoSwapAfterStop == [][~(~isRunning /\ SwapCalled)]_vars

\* a cycle of the loop is in progress
InCycle == loop.pc \in {"balances", "prices", "pass"}

\* the loop waits for its next check
AtWait == loop.pc = "wait"

\* the loop has started a cycle: getBalances is called
CycleStarted == loop.pc = "balances"

\* the outcomes of a cycle
CycleOutcomes == {"rebalanced", "nothing", "skipped", "error"}

\* C28: while the bot is running, after every polling cycle, whether it
\* rebalanced, found nothing to do, was skipped for missing prices or ended
\* in an error, the loop eventually starts another cycle (every external
\* call eventually returns or fails): every cycle ends at the wait of the
\* loop, and from the wait after each outcome the next cycle starts unless
\* the bot is stopped.
C28_NextCycleStarts ==
    /\ InCycle ~> AtWait
    /\ (AtWait /\ isRunning /\ loop.outcome \in CycleOutcomes)
          ~> (CycleStarted \/ ~isRunning)

\* a cycle started by a running bot after a cycle that ended in an error
C28_Witness ==
    /\ CycleStarted
    /\ isRunning
    /\ loop.outcome = "error"

\* cycles started after each of the other outcomes
C28_AfterRebalanced == CycleStarted /\ isRunning /\ loop.outcome = "rebalanced"

C28_AfterNothing == CycleStarted /\ isRunning /\ loop.outcome = "nothing"

C28_AfterSkipped == CycleStarted /\ isRunning /\ loop.outcome = "skipped"

\* a step of stop()
StopStep == isRunning /\ ~isRunning'

\* the baseline in memory, as saveData writes it
BaselineInMemory ==
    <<[initialBalances |-> initialBalances, startDate |-> startDate]>>

\* C29: stop(), called at any point of a cycle (also in the middle of a
\* pass with optimistic balance updates), persists the baseline unchanged:
\* the persisted baseline balances and start date after stop equal the
\* baseline in memory before stop, and no working balance is written.
C29_PersistsBaseline ==
    [][StopStep => savedBaseline' = BaselineInMemory]_vars

\* C29 as it holds: stop() leaves the baseline in memory as it is and
\* writes it to the file; when the write fails the file stays as it was.
\* In no case is a working balance written.
C29_BaselineNotCorrupted ==
    [][StopStep =>
         /\ initialBalances' = initialBalances
         /\ startDate' = startDate
         /\ \/ savedBaseline' = BaselineInMemory
            \/ savedBaseline' = savedBaseline]_vars

\* stop() came in the middle of a pass whose working balances differ from
\* the baseline, and the file holds the baseline
C29_Witness ==
    /\ ~isRunning
    /\ loop.stoppedMidPass
    /\ balances # initialBalances
    /\ savedBaseline = BaselineInMemory

\* stop() was called, its write failed and there is no data file
C29_NothingPersisted ==
    /\ ~isRunning
    /\ savedBaseline = <<>>

\* ------------------------------------------------------------------ C34
\* the sell loop is at the trade of the base token
SellOfBase ==
    /\ pc = "sell"
    /\ idx <= Len(sellTrades)
    /\ sellTrades[idx].token = baseToken

\* the sell loop handles its trade
SellTradeHandled == pc = "sell" /\ idx' = idx + 1

\* C34: the sell phase excludes the base token: when the base token itself
\* is flagged overweight, the sell phase makes no call to the swap executor
\* for it and changes no balance for that intent, so its excess stays
\* available as base-token balance for the buy phase.
C34_NoCallForBase ==
    [][(SellOfBase /\ SellTradeHandled) =>
          (~SwapCalled /\ balances' = balances)]_vars

\* C34 as it holds: for the base token flagged overweight the sell phase
\* does call swap, with the base token on both sides; swap refuses the pair
\* at once, no order is submitted and no balance changes.
C34_BaseSaleRefused ==
    [][(SellOfBase /\ SellTradeHandled) =>
          /\ balances' = balances
          /\ SwapCalled =>
                /\ Last(swapLog').from = baseToken
                /\ Last(swapLog').to = baseToken
                /\ ~Last(swapLog').submitted
                /\ ~Last(swapLog').success]_vars

\* the base token was flagged overweight, the sell phase has called swap
\* for it, and the balances are those the pass began with
C34_Witness ==
    /\ Len(swapLog) = 1
    /\ swapLog[1].phase = "sell"
    /\ swapLog[1].from = baseToken
    /\ swapLog[1].to = baseToken
    /\ ~swapLog[1].submitted
    /\ balances = wallet
    /\ pc = "buy"

\* ------------------------------------------------------------------ C35
\* the amount the sell loop computes for its trade
SellAmountNow ==
    (balances[sellTrades[idx].token] * prices[sellTrades[idx].token]
       - TargetValue(totalValue, weights, sellTrades[idx].token))
    \div prices[sellTrades[idx].token]

\* the base-token amount the buy loop computes for its trade
BuyAmountNow ==
    (TargetValue(totalValue, weights, buyTrades[idx].token)
       - balances[buyTrades[idx].token] * prices[buyTrades[idx].token])
    \div prices[baseToken]

\* the sell loop is at a trade whose amount is exactly 0.00001 units
SellAtFloor ==
    /\ pc = "sell"
    /\ idx <= Len(sellTrades)
    /\ HasValue(prices, sellTrades[idx].token)
    /\ HasTarget(weights, sellTrades[idx].token)
    /\ totalValue # NaN
    /\ SellAmountNow = SellDustFloor * priceUnit[sellTrades[idx].token]

\* the buy loop is at a trade of another token than the base token whose
\* base-token amount is exactly 0.0001 units
BuyAtFloor ==
    /\ pc = "buy"
    /\ idx <= Len(buyTrades)
    /\ buyTrades[idx].token # baseToken
    /\ HasValue(prices, buyTrades[idx].token)
    /\ HasValue(prices, baseToken)
    /\ HasTarget(weights, buyTrades[idx].token)
    /\ totalValue # NaN
    /\ BuyAmountNow = BuyDustFloor * priceUnit[baseToken]

\* the loop handles its trade
TradeHandled == idx' = idx + 1 /\ pc' = pc

\* C35: dust-floor boundary: a swap is issued only for an amount strictly
\* above the floor; a computed sell amount exactly equal to 0.00001 units
\* and a computed base amount exactly equal to 0.0001 units are skipped and
\* produce no swap call.
C35_AtFloorSkipped ==
    [][((SellAtFloor \/ BuyAtFloor) /\ TradeHandled) => ~SwapCalled]_vars

\* C35 as it holds: a swap is issued only for an amount at or above the
\* floor; a sell amount exactly equal to 0.00001 units is swapped, a base
\* amount exactly equal to 0.0001 units is swapped when the base-token
\* balance covers it, and every call of the sell and the buy phase carries
\* an amount of at least the floor.
C35_AtFloorSwapped ==
    /\ [][(SellAtFloor /\ TradeHandled) => SwapCalled]_vars
    /\ [][(BuyAtFloor /\ TradeHandled /\ SufficientWeth(balances, BuyAmountNow))
            => SwapCalled]_vars
    /\ [](\A i \in 1..Len(swapLog) :
            /\ swapLog[i].phase = "sell" =>
                  swapLog[i].amount >= SellDustFloor * priceUnit[swapLog[i].from]
            /\ swapLog[i].phase = "buy" =>
                  swapLog[i].amount >= BuyDustFloor * priceUnit[baseToken])

\* a sell-phase call with exactly 0.00001 units
C35_Witness ==
    \E i \in 1..Len(swapLog) :
        /\ swapLog[i].phase = "sell"
        /\ swapLog[i].amount = SellDustFloor * priceUnit[swapLog[i].from]

\* a buy-phase call with exactly 0.0001 units of the base token
C35_BuyAtFloorCalled ==
    \E i \in 1..Len(swapLog) :
        /\ swapLog[i].phase = "buy"
        /\ swapLog[i].amount = BuyDustFloor * priceUnit[baseToken]

\* ------------------------------------------------------------------ C37
\* a sell-phase or base-deficit-phase step records a sale of token t in
\* the in-memory balances
SaleRecorded(t) ==
    /\ pc \in {"sell", "deficit"}
    /\ balances'[t] < balances[t]

\* the in-memory value of t is at least totalValue * this.weights[t]
AtOrAboveTarget(b, t) ==
    /\ HasValue(prices, t)
    /\ HasTarget(weights, t)
    /\ totalValue # NaN
    /\ b[t] * prices[t] * WeightScale >= totalValue * weights[t]

\* C37: for every token other than the base token, after any sale of the
\* sell phase or the base-deficit phase the in-memory value of the token
\* (balance times price) is at least its target value (total value times
\* target weight), whichever earlier swaps succeeded or failed.
C37_NeverSoldBelowTarget ==
    [][\A t \in tokens \ {baseToken} :
          SaleRecorded(t) => AtOrAboveTarget(balances', t)]_vars

\* a sale of the base-deficit phase was recorded after a failed swap of the
\* sell phase
C37_Witness ==
    /\ \E i \in 1..Len(swapLog) :
          swapLog[i].phase = "sell" /\ ~swapLog[i].success
    /\ swapLog # <<>>
    /\ Last(swapLog).phase = "deficit"
    /\ Last(swapLog).success
    /\ Last(swapLog).amount > 0

\* ------------------------------------------------------------------ C40
\* a step that starts a polling cycle
CycleStarts == ~CycleStarted /\ CycleStarted'

\* the loop of start() has ended
LoopExited == loop.pc = "exited"

\* C40: after stop() the instance starts no new polling cycle; only the
\* cycle in progress at the time of the stop may run to its end, and after
\* it the loop terminates.
C40_NoCycleAfterStop ==
    /\ [][~isRunning => ~CycleStarts]_vars
    /\ (~isRunning) ~> LoopExited
    /\ [][LoopExited => (LoopExited' /\ ~isRunning')]_vars

\* the loop has ended after a stop that came in the middle of a pass
C40_Witness ==
    /\ LoopExited
    /\ ~isRunning
    /\ loop.stoppedMidPass

\* ------------------------------------------------------------------ C32
\* the first cycle of a bot constructed without a data file has read the
\* balances
FirstRunRead ==
    /\ loop.pc = "prices"
    /\ loop.outcome = "none"
    /\ savedBaseline = <<>>

\* C32: on a first run with no persisted data the baseline is created from
\* the current balances: the baseline balances equal the balances returned
\* by the balance source at that run.
C32_BaselineFromBalances == FirstRunRead => initialBalances = balances

\* what the first run has instead: the quantities written in the constructor
C32_BaselineFromConstructor ==
    FirstRunRead => initialBalances = ConstructorInitialBalances

\* a first run whose balance source answered for every token
C32_FirstRunReached == FirstRunRead /\ loop.failedReads = {}

\* ------------------------------------------------------------------ C39
\* a step in which the handler of a command of a chat that is not on the
\* list has run
UnlistedCommand ==
    /\ telegram' # telegram
    /\ telegram'[1].chat \notin chatIds

\* C39: a Telegram command from a chat whose ID is not in the configured
\* chat-ID list changes no bot state and triggers no reply and no balance
\* or price query; in particular /reset_hodl from such a chat leaves the
\* baseline, the start date and the persisted data unchanged.
C39_UnlistedChatIgnored ==
    [][UnlistedCommand =>
          /\ UNCHANGED botVars
          /\ ~telegram'[1].replied
          /\ ~telegram'[1].queried]_vars

\* a command of an unlisted chat was ignored by a bot that has saved its
\* data and made a comparison for a listed chat
C39_Witness ==
    /\ telegram # <<>>
    /\ telegram[1].chat \notin chatIds
    /\ ~telegram[1].replied
    /\ startDate = now
    /\ savedBaseline # <<>>
    /\ comparison # NoComparison

\* ------------------------------------------------------------------ C33
\* two comparisons in a row with the same baseline (a reset forgets the
\* comparisons made before it), each with a price for every token
ComparedAgain ==
    /\ comparison # NoComparison
    /\ comparison' # NoComparison
    /\ comparison' # comparison
    /\ FullyPriced(comparison[1].currentPrices)
    /\ FullyPriced(comparison'[1].currentPrices)

\* C33: between two resets the initialValue returned by the comparison is
\* anchored to the baseline: it is the sum of baseline balance times the
\* price known at baseline time, and later successful price fetches with
\* different prices do not change it.
C33_InitialValueAnchored ==
    [][ComparedAgain =>
          comparison'[1].result.initialValue
              = comparison[1].result.initialValue]_vars

\* what the comparison returns instead: with a price for every token the
\* initialValue is the hodlValue at the current prices
C33_InitialValueIsHodlValue ==
    (comparison # NoComparison /\ FullyPriced(comparison[1].currentPrices))
        => comparison[1].result.initialValue = comparison[1].result.hodlValue

\* a comparison made at prices that differ from those of the comparison
\* before it
C33_PricesMoved ==
    /\ comparison # NoComparison
    /\ FullyPriced(comparison[1].currentPrices)
    /\ comparison[1].currentPrices["WETH"] = 2
    /\ comparison[1].initialBalances["WETH"] > 0

\* ------------------------------------------------------------------ C31
\* the baseline in memory is not what it was
BaselineChanged ==
    initialBalances' # initialBalances \/ startDate' # startDate

\* a step of the /reset_hodl handler of a listed chat: no step of the
\* loop, of a pass, of a price fetch or of stop()
ResetStep ==
    /\ telegram' # <<>>
    /\ telegram'[1].command = "/reset_hodl"
    /\ telegram'[1].replied
    /\ UNCHANGED <<loop, pc, idx, isRunning, swapLog, balances, lastGet,
                   lastKnownPrices, priceCache>>

\* the last command handled was a reset
LastCommandWasReset ==
    /\ telegram # <<>>
    /\ telegram[1].command = "/reset_hodl"
    /\ telegram[1].replied

\* what getBalances can return for the wallet
BalancesRead == {getBalances(wallet, failed) : failed \in BalanceFailureChoices}

\* C31: after construction the baseline in memory (balances and reference
\* timestamp) is changed by no operation other than an explicit reset:
\* polling cycles, passes with their optimistic balance updates, price
\* fetches, comparisons, status commands and stop leave it unchanged, and
\* a reset sets it to a copy of the balances read at reset time that later
\* passes do not alter.
C31_OnlyResetChangesBaseline ==
    /\ [][BaselineChanged => ResetStep]_vars
    /\ [](LastCommandWasReset =>
            /\ initialBalances \in BalancesRead
            /\ startDate = now)

\* after a reset a pass of the loop has changed its working balances, and
\* the baseline is still the wallet as read at the reset
C31_Witness ==
    /\ LastCommandWasReset
    /\ initialBalances = wallet
    /\ startDate = 2
    /\ WorkingBalancesChanged
    /\ balances # initialBalances

\* ------------------------------------------------------------------ C36
\* the buy amount the exchange quoted to the call of swap
QuotedAtoms == swapCall.quote[1].atoms

\* C36: every order submitted by swap carries a minimum buy amount equal
\* to floor(quoted buy amount * 98 / 100) in whole token units: it is never
\* above the quote and never more than 2% (plus the rounding down to a
\* whole unit) below it; when no quote is obtained or the allowance step
\* fails, no order is submitted and swap returns false.
C36_MinBuyIsQuoteLessTwoPercent ==
    /\ posted # <<>> =>
          /\ Len(swapCall.quote) > 0
          /\ posted[1].buyAmount * 100 <= QuotedAtoms * 98
          /\ QuotedAtoms * 98 < (posted[1].buyAmount + 1) * 100
          /\ posted[1].buyAmount <= QuotedAtoms
          /\ posted[1].sellToken = swapCall.from
          /\ posted[1].buyToken = swapCall.to
    /\ (swapCall.pc = "returned"
           /\ (~swapCall.allowanceOk \/ swapCall.quote = <<>>)) =>
          /\ posted = <<>>
          /\ swapCall.returned = <<FALSE>>

\* an accepted order for a quote of 51 atoms carries 49 atoms (49.98
\* rounded down)
C36_Witness ==
    /\ posted # <<>>
    /\ swapCall.returned = <<TRUE>>
    /\ QuotedAtoms = 51
    /\ posted[1].buyAmount = 49

\* a call that got no quote after a granted allowance, and a call whose
\* allowance step failed
C36_NoQuoteReached ==
    /\ swapCall.pc = "returned"
    /\ swapCall.allowanceOk
    /\ swapCall.quote = <<>>

C36_NoAllowanceReached ==
    /\ swapCall.pc = "returned"
    /\ swapCall.from # swapCall.to
    /\ ~swapCall.allowanceOk

\* ------------------------------------------------------------------ C38
\* a pass has detected its trades and has steps left
PassUnderWay == pc \in {"sell", "deficit_start", "deficit", "buy"}

\* the sell loop or the buy loop handles the trade of a token
TradeOfPass ==
    IF pc = "sell" /\ idx <= Len(sellTrades) THEN <<sellTrades[idx]>>
    ELSE IF pc = "buy" /\ idx <= Len(buyTrades) THEN <<buyTrades[idx]>>
    ELSE <<>>

\* the target weight the step reads for its token is the one the
\* detection of the pass computed the trade with
TargetAsDetected(trade) ==
    /\ HasTarget(weights, trade.token)
    /\ DiffNum(currentWeights, weights, trade.token) = trade.diff

\* C38: the target weights, the deviation threshold and the minimum trade
\* value used by one pass are the same at every step of that pass: a
\* configuration update that arrives through the web endpoint while the
\* pass waits on a swap or a pause does not change the targets used by the
\* remaining steps of that pass.
C38_ConfigFixedDuringPass ==
    /\ [][PassUnderWay =>
            UNCHANGED <<weights, deviationThreshold, minTradeUSD>>]_vars
    /\ [](TradeOfPass # <<>> => TargetAsDetected(TradeOfPass[1]))

\* the target weight the detection of the pass used for the trade
DetectedWeight(trade) ==
    (currentWeights.num[trade.token] * WeightScale - trade.diff)
        \div currentWeights.den

\* the base-token amount of the buy of a trade at the detection's target
BuyAmountAsDetected(trade) ==
    ((totalValue * DetectedWeight(trade)) \div WeightScale
         - balances[trade.token] * prices[trade.token])
        \div prices[baseToken]

\* the last buy of the pass was made with an amount that is not the one
\* the target of the detection gives
C38_BoughtAtNewTarget ==
    /\ pc = "buy"
    /\ idx > 1
    /\ Len(swapLog) > 0
    /\ Last(swapLog).phase = "buy"
    /\ Last(swapLog).to = buyTrades[idx - 1].token
    /\ Last(swapLog).amount # BuyAmountAsDetected(buyTrades[idx - 1])

====
